---- MODULE Spec2Model ----
(***************************************************************************)
(* Satellite-catalog acquisition and caching pipeline of s.t.model:        *)
(*   - the direct loader   (hook useSatelliteData fetching CelesTrak),     *)
(*   - the API loader      (hook useSatelliteData fetching /api/satellites)*)
(*   - the serverless handler behind /api/satellites.                      *)
(* Text is modelled as sequences of one-character strings, time in hours.  *)
(***************************************************************************)
EXTENDS Integers, Sequences, FiniteSets, TLC

(***************************************************************************)
(* Bounds of the model                                                     *)
(***************************************************************************)
NumGroups == 2      \* how many entries of GROUP_MAP are loaded
MaxBlocks == 2      \* how many 3-line blocks a body given to the parser has
MaxTicks == 1       \* how many hours may pass during a behaviour
StartTime == 100    \* Date.now() of the initial state, in hours
MaxLoads == 2       \* how many times the page is loaded in one browser

(***************************************************************************)
(* Program constants                                                       *)
(***************************************************************************)
CACHE_EXPIRY == 24
CACHE_DURATION == 12
LINE_LEN == 69
MIN_BODY == 50
CACHE_KEY == "st-model-sat-data-v7"
CACHE_KEYS == <<CACHE_KEY, "st-model-sat-data-v6", "st-model-sat-data-v5">>
GROUP_MAP ==
  <<[key |-> "stations", label |-> "STATION"],
    [key |-> "starlink", label |-> "PAYLOAD"],
    [key |-> "cosmos-1408-debris", label |-> "DEBRIS"]>>
Groups == 1..NumGroups
\* hours between the end of a load and the next load of the page
ReturnAfter == {0, CACHE_DURATION + 1, CACHE_EXPIRY - 1, CACHE_EXPIRY}

(***************************************************************************)
(* Optional values: null/undefined is the empty sequence                   *)
(***************************************************************************)
None == <<>>
Some(x) == <<x>>

(***************************************************************************)
(* JavaScript string primitives on sequences of characters                 *)
(***************************************************************************)
DigitChars == {"0", "1", "2", "3", "4", "5", "6", "7", "8", "9"}
WhiteSpace == {" ", "\n", "\r"}

\* parseInt of a one-character string; -1 stands for NaN
parseInt(c) ==
  CASE c = "0" -> 0 [] c = "1" -> 1 [] c = "2" -> 2 [] c = "3" -> 3
    [] c = "4" -> 4 [] c = "5" -> 5 [] c = "6" -> 6 [] c = "7" -> 7
    [] c = "8" -> 8 [] c = "9" -> 9 [] OTHER -> -1

\* String.prototype.substring(a, b), 0-based, end exclusive
substring(s, a, b) ==
  LET lo == IF a < Len(s) THEN a ELSE Len(s)
      hi == IF b < Len(s) THEN b ELSE Len(s)
  IN  SubSeq(s, lo + 1, hi)

\* String.prototype.trim
trim(s) ==
  LET keep == {i \in 1..Len(s) : s[i] \notin WhiteSpace}
  IN  IF keep = {} THEN <<>>
      ELSE SubSeq(s, CHOOSE i \in keep : \A j \in keep : i <= j,
                     CHOOSE i \in keep : \A j \in keep : i >= j)

\* String.prototype.includes
includes(s, sub) ==
  \E i \in 0..(Len(s) - Len(sub)) : SubSeq(s, i + 1, i + Len(sub)) = sub

\* String.prototype.split(/\r?\n/)
split(s) ==
  LET nl == {i \in 1..Len(s) : s[i] = "\n"}
      \* position of the k-th line feed; Len(s) + 1 closes the last line
      brk(k) == IF k = 0 THEN 0
                ELSE IF k > Cardinality(nl) THEN Len(s) + 1
                ELSE CHOOSE p \in nl : Cardinality({q \in nl : q <= p}) = k
      piece(k) == LET from == brk(k - 1) + 1
                      to == brk(k) - 1
                      cr == k <= Cardinality(nl) /\ to >= from /\ s[to] = "\r"
                  IN  SubSeq(s, from, IF cr THEN to - 1 ELSE to)
  IN  [k \in 1..(Cardinality(nl) + 1) |-> piece(k)]

(***************************************************************************)
(* TLE validator and parser (identical in the loader and in the handler)   *)
(***************************************************************************)
\* the loop with the minus-sign branch lost
RECURSIVE ChecksumSum_NoMinus(_, _)
ChecksumSum_NoMinus(line, i) ==
  IF i >= LINE_LEN - 1 THEN 0
  ELSE (IF line[i + 1] \in DigitChars THEN parseInt(line[i + 1]) ELSE 0)
       + ChecksumSum_NoMinus(line, i + 1)

\* the loop of validateTLEChecksum from index i: digits count their value,
\* a minus sign counts 1
RECURSIVE ChecksumSum(_, _)
ChecksumSum(line, i) ==
  IF i >= LINE_LEN - 1 THEN 0
  ELSE (IF line[i + 1] \in DigitChars THEN parseInt(line[i + 1])
        ELSE IF line[i + 1] = "-" THEN 1 ELSE 0) + ChecksumSum(line, i + 1)

\* the comparison taken modulo 5 instead of 10
validateTLEChecksum_Mod5(line) ==
  IF Len(line) < LINE_LEN THEN FALSE
  ELSE parseInt(line[LINE_LEN]) >= 0
       /\ (ChecksumSum(line, 0) % 5) = (parseInt(line[LINE_LEN]) % 5)

validateTLEChecksum(line) ==
  IF Len(line) < LINE_LEN THEN FALSE
  ELSE (ChecksumSum(line, 0) % 10) = parseInt(line[LINE_LEN])

Str_ISS == <<"I", "S", "S">>
Str_CSS == <<"C", "S", "S">>
Str_TIANGONG == <<"T", "I", "A", "N", "G", "O", "N", "G">>
Str_DEB == <<"D", "E", "B">>
Str_RB == <<"R", "/", "B">>

\* the name markers tested before the label, the label as the default
categoryOf_NameFirst(name, categoryLabel) ==
  IF includes(name, Str_ISS) \/ includes(name, Str_CSS)
     \/ includes(name, Str_TIANGONG)
  THEN "STATION"
  ELSE IF includes(name, Str_DEB) \/ includes(name, Str_RB)
  THEN "DEBRIS"
  ELSE categoryLabel

\* the two branches in the opposite order
categoryOf_DebrisFirst(name, categoryLabel) ==
  IF categoryLabel = "DEBRIS" \/ includes(name, Str_DEB)
     \/ includes(name, Str_RB)
  THEN "DEBRIS"
  ELSE IF categoryLabel = "STATION" \/ includes(name, Str_ISS)
          \/ includes(name, Str_CSS) \/ includes(name, Str_TIANGONG)
  THEN "STATION"
  ELSE "PAYLOAD"

categoryOf(name, categoryLabel) ==
  IF categoryLabel = "STATION" \/ includes(name, Str_ISS)
     \/ includes(name, Str_CSS) \/ includes(name, Str_TIANGONG)
  THEN "STATION"
  ELSE IF categoryLabel = "DEBRIS" \/ includes(name, Str_DEB)
          \/ includes(name, Str_RB)
  THEN "DEBRIS"
  ELSE "PAYLOAD"

\* satellite.twoline2satrec: the propagation handle built from two lines
twoline2satrec(tle1, tle2) == "satrec"

\* parseSingleTLE of the loader: None is null
parseSingleTLE(name, tle1, tle2, categoryLabel) ==
  IF ~validateTLEChecksum(tle1) \/ ~validateTLEChecksum(tle2) THEN None
  ELSE Some([name |-> trim(name), tle1 |-> trim(tle1), tle2 |-> trim(tle2),
             id |-> trim(substring(tle2, 2, 7)),
             category |-> categoryOf(name, categoryLabel),
             isVisible |-> TRUE,
             satrec |-> twoline2satrec(tle1, tle2)])

\* the loop ending at the first block that fails validation
RECURSIVE ParseBlocks_StopOnBad(_, _, _)
ParseBlocks_StopOnBad(lines, i, categoryLabel) ==
  IF i + 2 >= Len(lines) THEN <<>>
  ELSE IF parseSingleTLE(lines[i + 1], lines[i + 2], lines[i + 3],
                         categoryLabel) = None
  THEN <<>>
  ELSE parseSingleTLE(lines[i + 1], lines[i + 2], lines[i + 3], categoryLabel)
       \o ParseBlocks_StopOnBad(lines, i + 3, categoryLabel)

RECURSIVE ParseBlocks(_, _, _)
ParseBlocks(lines, i, categoryLabel) ==
  IF i + 2 >= Len(lines) THEN <<>>
  ELSE parseSingleTLE(lines[i + 1], lines[i + 2], lines[i + 3], categoryLabel)
       \o ParseBlocks(lines, i + 3, categoryLabel)

parseBulkTLE(text, categoryLabel) ==
  ParseBlocks(split(trim(text)), 0, categoryLabel)

\* parseSingleTLE / parseBulkTLE of the handler (no isVisible, no satrec)
srvParseSingleTLE(name, tle1, tle2, categoryLabel) ==
  IF ~validateTLEChecksum(tle1) \/ ~validateTLEChecksum(tle2) THEN None
  ELSE Some([name |-> trim(name), tle1 |-> trim(tle1), tle2 |-> trim(tle2),
             id |-> trim(substring(tle2, 2, 7)),
             category |-> categoryOf(name, categoryLabel)])

RECURSIVE SrvParseBlocks(_, _, _)
SrvParseBlocks(lines, i, categoryLabel) ==
  IF i + 2 >= Len(lines) THEN <<>>
  ELSE srvParseSingleTLE(lines[i + 1], lines[i + 2], lines[i + 3],
                         categoryLabel)
       \o SrvParseBlocks(lines, i + 3, categoryLabel)

srvParseBulkTLE(text, categoryLabel) ==
  SrvParseBlocks(split(trim(text)), 0, categoryLabel)

(***************************************************************************)
(* Upstream bodies: what a CelesTrak source may answer for a group         *)
(***************************************************************************)
Pad(n) == [i \in 1..n |-> " "]
Id_A == <<"2", "5", "5", "4", "4">>
Id_B == <<" ", " ", "9", "0", "1">>
Fld(g) == <<"1", "2", "3", "4">>[g]
Chk1(g) == <<"2", "3", "4", "5">>[g]
Chk2(g) == <<"3", "4", "5", "6">>[g]
TleLine(first, id5, fld, chk) ==
  <<first, " ">> \o id5 \o <<"U", " ", fld>> \o Pad(58) \o <<chk>>
NameA(g) ==
  <<Str_ISS, <<"Z", "A", "R", "Y", "A">>, <<"Z", "A", "R", " ">> \o Str_DEB>>[g]
NameA2(g) == <<"M", "O", "D", Fld(g)>>
NameB(g) == <<"S", "L", "-", Fld(g), " ">> \o Str_RB

BlockA(g) == <<NameA(g), TleLine("1", Id_A, Fld(g), Chk1(g)),
               TleLine("2", Id_A, Fld(g), Chk2(g))>>
BlockA2(g) == <<NameA2(g), TleLine("1", Id_A, Fld(g), Chk1(g)),
                TleLine("2", Id_A, Fld(g), Chk2(g))>>
BlockB(g) == <<NameB(g), TleLine("1", Id_B, Fld(g), Chk1(g)),
               TleLine("2", Id_B, Fld(g), Chk2(g))>>
BlockBad1(g) == <<NameA(g), TleLine("1", Id_A, Fld(g), "0"),
                  TleLine("2", Id_A, Fld(g), Chk2(g))>>
BlockBad2(g) == <<NameA(g), TleLine("1", Id_A, Fld(g), Chk1(g)),
                  TleLine("2", Id_A, "-", Chk2(g))>>

RECURSIVE Join(_, _)
Join(lines, sep) ==
  IF lines = <<>> THEN <<>> ELSE Head(lines) \o sep \o Join(Tail(lines), sep)

LF == <<"\n">>
CRLF == <<"\r", "\n">>
Texts(g) ==
  { Join(BlockA(g) \o BlockB(g), LF),
    Join(BlockBad1(g) \o BlockB(g), LF),
    Join(BlockBad2(g), LF),
    Join(BlockA(g) \o BlockA2(g), LF),
    Join(BlockB(g) \o SubSeq(BlockA(g), 1, 2), CRLF),
    <<"e", "r", "r">>,
    <<>> }

SrvParsed == [g \in Groups |-> [t \in Texts(g) |->
                srvParseBulkTLE(t, GROUP_MAP[g].label)]]

\* the result of parsing each possible body, per group
Parsed == [g \in Groups |-> [t \in Texts(g) |->
             parseBulkTLE(t, GROUP_MAP[g].label)]]

(***************************************************************************)
(* Cache envelopes in localStorage.  A stored record is tagged with its    *)
(* JSON shape: an object, or the array form of older schema versions.      *)
(***************************************************************************)
Obj(e) == [form |-> "object", v |-> e]
Arr(e) == [form |-> "array",
           v |-> <<e.name, e.tle1, e.tle2, e.category, e.id>>]
Envelope(data, timestamp) ==
  [json |-> TRUE, data |-> data, timestamp |-> timestamp]
\* a value that JSON.parse rejects
Garbage == [json |-> FALSE, data |-> <<>>, timestamp |-> None]

StoredSat(tag) ==
  [name |-> <<"V", tag>>, tle1 |-> TleLine("1", Id_A, "4", "5"),
   tle2 |-> TleLine("2", Id_A, "4", "6"), id |-> Id_A,
   category |-> "STATION", isVisible |-> TRUE]
\* a record of an older schema whose line 1 has a wrong checksum digit
CorruptSat ==
  [name |-> <<"V", "5">>, tle1 |-> TleLine("1", Id_A, "4", "0"),
   tle2 |-> TleLine("2", Id_A, "4", "6"), id |-> Id_A,
   category |-> "STATION", isVisible |-> TRUE]
\* a record of an older schema that carries no TLE lines
LegacyStub == [form |-> "object", v |-> [name |-> <<"V", "6">>, id |-> Id_A]]

\* A timestamp on the expiry boundary: young at StartTime, expired one hour
\* later; one expired from the start; one that stays young
Boundary == Some(StartTime - CACHE_EXPIRY + 1)
Expired == Some(StartTime - CACHE_EXPIRY)
Young == Some(StartTime - CACHE_EXPIRY + 1 + MaxTicks)

\* what the three keys may hold when the page loads
InitStorage(v) ==
  { [k \in {CACHE_KEYS[1], CACHE_KEYS[2], CACHE_KEYS[3]} |->
       IF k = CACHE_KEYS[1] THEN a ELSE IF k = CACHE_KEYS[2] THEN b ELSE c] :
    a \in {None, Some(Envelope(<<Obj(StoredSat("7"))>>, Expired)),
           Some(Envelope(<<Obj(StoredSat("7"))>>, Boundary))}
          \cup (IF v = "direct"
                THEN {Some(Garbage), Some(Envelope(<<>>, Young)),
                      Some(Envelope(<<Obj(StoredSat("7"))>>, None))}
                ELSE {}),
    b \in {None, Some(Envelope(<<LegacyStub, Obj(StoredSat("6"))>>, Young))}
          \cup (IF v = "direct"
                THEN {Some(Envelope(<<Arr(StoredSat("6"))>>, Expired)),
                      Some(Envelope(<<Arr(StoredSat("6"))>>, Young))}
                ELSE {}),
    c \in {None} \cup (IF v = "direct"
                       THEN {Some(Envelope(<<Obj(CorruptSat)>>, Young))}
                       ELSE {}) }

\* the handler's cache file, written by an earlier invocation
SrvStoredSat ==
  [name |-> <<"F">>, tle1 |-> TleLine("1", Id_A, "4", "5"),
   tle2 |-> TleLine("2", Id_A, "4", "6"), id |-> Id_A, category |-> "STATION"]
InitCacheFile ==
  {None} \cup {Some(Envelope(<<SrvStoredSat>>, ts)) :
                 ts \in {None, Some(StartTime - CACHE_DURATION),
                          Some(StartTime - CACHE_DURATION + 1)}}

(***************************************************************************)
(* State                                                                   *)
(***************************************************************************)
VARIABLES
  variant,        \* which loader the page runs: "direct" or "api"
  now,            \* Date.now(), in hours
  localStorage,   \* key -> None | Some(raw value)
  satellites, loading, error, status,   \* the hook's React state
  pc,             \* position of fetchAll
  cachedData, cacheTimestamp, usedKey,  \* locals of fetchAll
  masterList, seenIds,                  \* aggregation of the direct loader
  grp,            \* per group: state of fetchWithFallback / processGroup
  order,          \* the groups whose result was published, in order
  requests,       \* the HTTP requests issued so far
  writes,         \* the storage locations written so far, in order
  cacheFile,      \* the handler's cache file: None | Some(envelope)
  spc,            \* position of the handler
  sgrp,           \* per group: state of the handler's fetchGroupData
  response,       \* the handler's answer to the loader's request
  fnOp, fnArg, fnLabel,          \* a call of a parser function: which, on what
  fnValid, fnCategory, fnParsed, \* and its result, by type
  fnTime, fnLib,                 \* a call of a propagation service: its time
                                 \* argument and what satellite.js does
  fnState, fnStats,              \* and how the call ended
  simTime, realTime, speed, paused,     \* SIM_STATE
  appSpeed, appPaused,           \* the App's mirrors of speed and paused
  wall,           \* Date.now() of the page, in ms
  frameDelta,     \* delta of the frame being rendered, in ms
  framePc,        \* 0 between frames, else the next useFrame subscriber
  frames,         \* frames rendered so far
  ticks,          \* writes of simTime by the frame driver in this frame
  reads,          \* reads of simTime by the consumers in this frame
  selectedSatId,  \* index of the selected satellite, 0 for none
  marked,         \* a call of propagateSatellite that is followed: its
                  \* arguments, what satellite.js did, its result
  repeat,         \* the result of the last call with the marked arguments
  lastOp,         \* the handler that ran last
  uiNow,          \* Date.now() of the page while the loading screen shows
  loadStartTime,  \* App: Date.now() of the first render
  count,          \* LoadingScreen: the counter
  startDue, tickDue, completeDue, exitDue, hideDue,  \* pending timers
  animationComplete, isExiting, showLoadingScreen,   \* App state
  loads,          \* page loads so far in this browser
  upstream        \* when the data last stored under CACHE_KEY was
                  \* fetched from CelesTrak: None | Some(time)

vars == <<variant, now, localStorage, satellites, loading, error, status, pc,
          cachedData, cacheTimestamp, usedKey, masterList, seenIds, grp,
          order, requests, writes, cacheFile, spc, sgrp, response,
          fnOp, fnArg, fnLabel, fnValid, fnCategory, fnParsed,
          fnTime, fnLib, fnState, fnStats,
          simTime, realTime, speed, paused, appSpeed, appPaused, wall,
          frameDelta, framePc, frames, ticks, reads, selectedSatId, marked,
          repeat, lastOp,
          uiNow, loadStartTime, count, startDue, tickDue, completeDue,
          exitDue, hideDue, animationComplete, isExiting, showLoadingScreen,
          loads, upstream>>

simVars == <<simTime, realTime, speed, paused, appSpeed, appPaused, wall,
             frameDelta, framePc, frames, ticks, reads, selectedSatId,
             marked, repeat, lastOp>>
gateVars == <<uiNow, loadStartTime, count, startDue, tickDue, completeDue,
              exitDue, hideDue, animationComplete, isExiting,
              showLoadingScreen>>
sessionVars == <<loads, upstream>>
uiVars == <<simVars, gateVars, sessionVars>>
fnVars == <<fnOp, fnArg, fnLabel, fnValid, fnCategory, fnParsed,
            fnTime, fnLib, fnState, fnStats>>
srvVars == <<cacheFile, spc, sgrp, response>>
hookState == <<satellites, loading, error, status>>
scanLocals == <<cachedData, cacheTimestamp, usedKey>>

STATUS_SYNCING == "SYNCING..."
STATUS_ACTIVE == "SYSTEM: ACTIVE"
STATUS_CACHED == "SYSTEM: ACTIVE (CACHED)"
STATUS_OFFLINE == "SYSTEM: OFFLINE (CACHED)"
STATUS_ERROR == "SYSTEM: ERROR"
NoError == "null"

\* the scene is not rendered
SimIdle ==
  /\ simTime = 0 /\ realTime = 0 /\ speed = 1 /\ paused = FALSE
  /\ appSpeed = 1 /\ appPaused = FALSE /\ wall = 0 /\ frameDelta = 0
  /\ framePc = 0 /\ frames = 0 /\ ticks = 0 /\ reads = {}
  /\ selectedSatId = 0 /\ marked = <<>> /\ repeat = <<>> /\ lastOp = "none"

\* the first load of the page; nothing stored by it yet
SessionIdle == loads = 1 /\ upstream = None
\* the loading screen is not followed
GateIdle ==
  /\ uiNow = 0 /\ loadStartTime = 0 /\ count = 0
  /\ startDue = -1 /\ tickDue = -1 /\ completeDue = {} /\ exitDue = -1
  /\ hideDue = -1
  /\ animationComplete = FALSE /\ isExiting = FALSE
  /\ showLoadingScreen = TRUE

Init ==
  /\ variant \in {"direct", "api"}
  /\ now = StartTime
  /\ localStorage \in InitStorage(variant)
  /\ satellites = <<>>
  /\ loading = TRUE
  /\ error = NoError
  /\ status = STATUS_SYNCING
  /\ pc = "mount"
  /\ cachedData = None
  /\ cacheTimestamp = None
  /\ usedKey = None
  /\ masterList = <<>>
  /\ seenIds = {}
  /\ grp = [g \in Groups |-> [st |-> "idle", url |-> 0, res |-> None]]
  /\ order = <<>>
  /\ requests = {}
  /\ writes = <<>>
  /\ cacheFile \in IF variant = "api" THEN InitCacheFile ELSE {None}
  /\ spc = "idle"
  /\ sgrp = [g \in Groups |-> [st |-> "idle", url |-> 0, res |-> <<>>]]
  /\ response = None
  /\ fnOp = "none"
  /\ fnArg = <<>>
  /\ fnLabel = ""
  /\ fnValid = FALSE
  /\ fnCategory = ""
  /\ fnParsed = <<<<>>, <<>>>>
  /\ fnTime = 0
  /\ fnLib = ""
  /\ fnState = [threw |-> FALSE, value |-> <<>>]
  /\ fnStats = [threw |-> FALSE, value |-> <<>>]
  /\ SimIdle
  /\ GateIdle
  /\ SessionIdle

(***************************************************************************)
(* Cache scan of fetchAll                                                  *)
(***************************************************************************)
\* parsed.timestamp || 0
TimestampOr0(ts) == IF ts = None THEN 0 ELSE ts[1]
Truthy(ts) == ts # None /\ ts[1] # 0

\* the age test written with <= for <
IsFresh_Inclusive(timestamp, t) == t - TimestampOr0(timestamp) <= CACHE_EXPIRY

\* const age = Date.now() - (parsed.timestamp || 0); age < CACHE_EXPIRY
IsFresh(timestamp, t) == t - TimestampOr0(timestamp) < CACHE_EXPIRY

\* the key at position i qualifies: readable JSON, non-empty data, young
KeyHit(store, i, t) ==
  LET raw == store[CACHE_KEYS[i]]
  IN  /\ raw # None
      /\ raw[1].json
      /\ Len(raw[1].data) > 0
      /\ IsFresh(raw[1].timestamp, t)

\* the scan without its break: the last qualifying key wins
ScanCache_NoBreak(store, t) ==
  IF \E i \in 1..Len(CACHE_KEYS) : KeyHit(store, i, t)
  THEN CHOOSE i \in 1..Len(CACHE_KEYS) :
         KeyHit(store, i, t)
         /\ \A j \in (i + 1)..Len(CACHE_KEYS) : ~KeyHit(store, j, t)
  ELSE 0

\* index of the first qualifying key in CACHE_KEYS order, 0 when none
ScanCache(store, t) ==
  IF \E i \in 1..Len(CACHE_KEYS) : KeyHit(store, i, t)
  THEN CHOOSE i \in 1..Len(CACHE_KEYS) :
         KeyHit(store, i, t) /\ \A j \in 1..(i - 1) : ~KeyHit(store, j, t)
  ELSE 0

\* the object a stored record stands for (array form is unpacked)
AsSat(s) ==
  IF s.form = "array"
  THEN [name |-> s.v[1], tle1 |-> s.v[2], tle2 |-> s.v[3],
        category |-> s.v[4], id |-> s.v[5]]
  ELSE s.v

\* twoline2satrec(sat.tle1, sat.tle2) throws on a missing line
RestoreThrows(data) ==
  \E i \in 1..Len(data) :
    ~({"tle1", "tle2"} \subseteq DOMAIN AsSat(data[i]))

Restore(data) ==
  [i \in 1..Len(data) |->
     LET sat == AsSat(data[i])
     IN  [f \in DOMAIN sat \cup {"satrec"} |->
            IF f = "satrec" THEN twoline2satrec(sat.tle1, sat.tle2)
            ELSE sat[f]]]

\* ({ satrec, ...rest }) => rest
StripSatrec(list) ==
  [i \in 1..Len(list) |->
     Obj([f \in DOMAIN list[i] \ {"satrec"} |-> list[i][f]])]

\* a write that also refreshes the legacy key the scan had found
setItem_Migrate(store, key, value) ==
  [k \in DOMAIN store |->
     IF k = key \/ (k # key /\ store[k] # None) THEN Some(value)
     ELSE store[k]]

\* localStorage.setItem(key, JSON.stringify(value))
setItem(store, key, value) == [store EXCEPT ![key] = Some(value)]

(***************************************************************************)
(* The loader: cache tiers shared by both variants of fetchAll             *)
(***************************************************************************)
ScanData(store, t) ==
  IF ScanCache(store, t) = 0 THEN None
  ELSE Some(store[CACHE_KEYS[ScanCache(store, t)]][1].data)
ScanTimestamp(store, t) ==
  IF ScanCache(store, t) = 0 THEN None
  ELSE store[CACHE_KEYS[ScanCache(store, t)]][1].timestamp
ScanKey(store, t) ==
  IF ScanCache(store, t) = 0 THEN None
  ELSE Some(CACHE_KEYS[ScanCache(store, t)])

\* if (cachedData && cacheTimestamp)
CacheUsable(store, t) ==
  ScanData(store, t) # None /\ Truthy(ScanTimestamp(store, t))

\* a catch that shows the exception's message as the status
CatchStatus_Message(v, s) == "TypeError"

\* the status after the outer catch of fetchAll: the API loader sets ERROR,
\* the direct loader sets only error and loading and leaves the status
CatchStatus(v, s) == IF v = "api" THEN STATUS_ERROR ELSE s

\* Valid cache: publish it and skip the network.  A record that cannot be
\* rebuilt throws into the outer catch of fetchAll.
UseFreshCache ==
  /\ pc = "mount"
  /\ CacheUsable(localStorage, now)
  /\ cachedData' = ScanData(localStorage, now)
  /\ cacheTimestamp' = ScanTimestamp(localStorage, now)
  /\ usedKey' = ScanKey(localStorage, now)
  /\ IF RestoreThrows(ScanData(localStorage, now)[1])
     THEN /\ error' = "TypeError"
          /\ loading' = FALSE
          /\ status' = CatchStatus(variant, status)
          /\ UNCHANGED satellites
     ELSE /\ satellites' = Restore(ScanData(localStorage, now)[1])
          /\ status' = STATUS_CACHED
          /\ loading' = FALSE
          /\ UNCHANGED error
  /\ pc' = "done"
  /\ UNCHANGED <<fnVars, uiVars, variant, srvVars, now, localStorage,
                 masterList, seenIds, grp, order,
                 requests, writes>>

(***************************************************************************)
(* The direct loader: fetchWithFallback, processGroup, the join            *)
(***************************************************************************)
\* No usable cache: every processGroup starts and issues its primary request
DirectStartFetch ==
  /\ pc = "mount"
  /\ variant = "direct"
  /\ ~CacheUsable(localStorage, now)
  /\ cachedData' = ScanData(localStorage, now)
  /\ cacheTimestamp' = ScanTimestamp(localStorage, now)
  /\ usedKey' = ScanKey(localStorage, now)
  /\ status' = STATUS_SYNCING
  /\ masterList' = <<>>
  /\ seenIds' = {}
  /\ grp' = [g \in Groups |-> [st |-> "fetch", url |-> 1, res |-> None]]
  /\ requests' = requests \cup {<<"client", g, 1>> : g \in Groups}
  /\ pc' = "fetching"
  /\ UNCHANGED <<fnVars, uiVars, variant, srvVars, now, localStorage,
                 satellites, loading, error,
                 order, writes>>

\* the loop giving up after the primary target
NextTarget_PrimaryOnly(g) ==
  /\ grp' = [grp EXCEPT ![g].st = "settled"]
  /\ UNCHANGED requests

\* the loop of fetchWithFallback moves to the next target, or returns null
NextTarget(g) ==
  IF grp[g].url < 2
  THEN /\ grp' = [grp EXCEPT ![g] = [st |-> "fetch", url |-> @.url + 1,
                                     res |-> None]]
       /\ requests' = requests \cup {<<"client", g, grp[g].url + 1>>}
  ELSE /\ grp' = [grp EXCEPT ![g].st = "settled"]
       /\ UNCHANGED requests

\* the catalog ids of a list of entities
IdsOf(list) == {list[i].id : i \in 1..Len(list)}

\* the filter keeping the last record of an id instead of the first
RECURSIVE UniqueInGroup_KeepLast(_, _)
UniqueInGroup_KeepLast(groupSats, seen) ==
  IF groupSats = <<>> THEN <<>>
  ELSE IF Head(groupSats).id \in seen
          \/ Head(groupSats).id \in IdsOf(Tail(groupSats))
       THEN UniqueInGroup_KeepLast(Tail(groupSats), seen)
       ELSE <<Head(groupSats)>> \o UniqueInGroup_KeepLast(Tail(groupSats), seen)

\* the filter with the seenIds.add(s.id) line lost
UniqueInGroup_NoAdd(groupSats, seen) ==
  SelectSeq(groupSats, LAMBDA sat : sat.id \notin seen)

\* the filter with the shared seenIds set ignored: each group is deduplicated
\* on its own
RECURSIVE UniqueInGroup_OwnGroupOnly(_, _)
UniqueInGroup_OwnGroupOnly(groupSats, seen) ==
  IF groupSats = <<>> THEN <<>>
  ELSE LET rest == UniqueInGroup_OwnGroupOnly(Tail(groupSats), seen)
       IN  <<Head(groupSats)>>
           \o SelectSeq(rest, LAMBDA sat : sat.id # Head(groupSats).id)

\* the filter of processGroup, run left to right against the shared set
RECURSIVE UniqueInGroup(_, _)
UniqueInGroup(groupSats, seen) ==
  IF groupSats = <<>> THEN <<>>
  ELSE IF Head(groupSats).id \in seen
       THEN UniqueInGroup(Tail(groupSats), seen)
       ELSE <<Head(groupSats)>>
            \o UniqueInGroup(Tail(groupSats), seen \cup {Head(groupSats).id})


\* the spread of the previous list lost: the batch replaces the list
AppendBatch_Overwrite(list, batch) == batch

\* the batch put in front of the list
AppendBatch_Prepend(list, batch) == batch \o list

\* [...list, ...uniqueInGroup]
AppendBatch(list, batch) == list \o batch

\* the join resolving with the first group (Promise.race for Promise.all)
AllSettled_Race == \E g \in Groups : grp[g].st = "settled"

\* await Promise.all(GROUP_MAP.map(processGroup)) has resolved
AllSettled == \A g \in Groups : grp[g].st = "settled"

\* the test written with >= for >
HasResults_Always(list) == Len(list) >= 0

\* if (masterList.length > 0)
HasResults(list) == Len(list) > 0

\* fetch rejects, is aborted by the timeout, or answers non-2xx
FetchFails(g) ==
  /\ pc = "fetching"
  /\ grp[g].st = "fetch"
  /\ NextTarget(g)
  /\ UNCHANGED <<fnVars, uiVars, variant, srvVars, now, localStorage,
                 hookState, pc, scanLocals,
                 masterList, seenIds, order, writes>>

\* fetch resolves with response.ok; the timeout is cleared
FetchOk(g) ==
  /\ pc = "fetching"
  /\ grp[g].st = "fetch"
  /\ grp' = [grp EXCEPT ![g].st = "body"]
  /\ UNCHANGED <<fnVars, uiVars, variant, srvVars, now, localStorage,
                 hookState, pc, scanLocals,
                 masterList, seenIds, order, requests, writes>>

\* response.text() settles (None: it rejects): parse, and on a non-empty
\* result run the rest of processGroup (dedup against seenIds, append, publish)
BodyArrives(g) ==
  /\ pc = "fetching"
  /\ grp[g].st = "body"
  /\ \E body \in {None} \cup {Some(t) : t \in Texts(g)} :
       IF body # None /\ Len(body[1]) > MIN_BODY
          /\ Len(Parsed[g][body[1]]) > 0
       THEN LET groupSats == Parsed[g][body[1]]
                uniqueInGroup == UniqueInGroup(groupSats, seenIds)
            IN  /\ grp' = [grp EXCEPT ![g] = [st |-> "settled", url |-> @.url,
                                              res |-> Some(groupSats)]]
                /\ seenIds' = seenIds \cup IdsOf(groupSats)
                /\ masterList' = AppendBatch(masterList, uniqueInGroup)
                /\ satellites' = AppendBatch(satellites, uniqueInGroup)
                /\ order' = Append(order, g)
                /\ UNCHANGED requests
       ELSE /\ NextTarget(g)
            /\ UNCHANGED <<seenIds, masterList, satellites, order>>
  /\ UNCHANGED <<fnVars, uiVars, variant, srvVars, now, localStorage, loading,
                 error, status, pc,
                 scanLocals, writes>>

\* the body never completes: the timer was cleared when the headers came,
\* so nothing settles response.text() and processGroup stays pending
BodyHangs(g) ==
  /\ pc = "fetching"
  /\ grp[g].st = "body"
  /\ grp' = [grp EXCEPT ![g].st = "hung"]
  /\ UNCHANGED <<fnVars, uiVars, variant, srvVars, now, localStorage,
                 hookState, pc,
                 scanLocals, masterList, seenIds, order, requests, writes>>

\* Promise.all has resolved: the cache write and the final status
DirectFinish ==
  /\ pc = "fetching"
  /\ variant = "direct"
  /\ AllSettled
  /\ IF HasResults(masterList)
     THEN /\ \E stored \in BOOLEAN :   \* setItem may throw (quota)
               IF stored
               THEN /\ localStorage' =
                         setItem(localStorage, CACHE_KEY,
                                 Envelope(StripSatrec(masterList), Some(now)))
                    /\ writes' = Append(writes, CACHE_KEY)
               ELSE UNCHANGED <<localStorage, writes>>
          /\ status' = STATUS_ACTIVE
          /\ loading' = FALSE
          /\ UNCHANGED <<satellites, error>>
     ELSE IF cachedData # None
     THEN /\ IF RestoreThrows(cachedData[1])
             THEN /\ error' = "TypeError"
                  /\ UNCHANGED <<satellites, status>>
             ELSE /\ satellites' = Restore(cachedData[1])
                  /\ status' = STATUS_OFFLINE
                  /\ UNCHANGED error
          /\ loading' = FALSE
          /\ UNCHANGED <<localStorage, writes>>
     ELSE /\ error' = "Failed to load satellite data"
          /\ status' = STATUS_ERROR
          /\ loading' = FALSE
          /\ UNCHANGED <<satellites, localStorage, writes>>
  /\ pc' = "done"
  /\ UNCHANGED <<fnVars, uiVars, variant, srvVars, now, scanLocals,
                 masterList, seenIds, grp, order,
                 requests>>

(***************************************************************************)
(* The serverless handler behind GET /api/satellites                       *)
(***************************************************************************)
CACHE_FILE == "/tmp/satellite-data-cache.json"

\* loadCache: the envelope when the file exists and is young, else null.
\* A missing timestamp makes the age NaN, and NaN < CACHE_DURATION is false.
loadCache(file, t) ==
  IF file # None /\ file[1].timestamp # None
     /\ t - file[1].timestamp[1] < CACHE_DURATION
  THEN file ELSE None

\* the request arrives: answer from the cache file, or fetch every group
SrvReceive ==
  /\ pc = "apiwait"
  /\ spc = "idle"
  /\ response = None
  /\ IF loadCache(cacheFile, now) # None
     THEN /\ response' =
               Some([code |-> 200,
                     satellites |-> loadCache(cacheFile, now)[1].data,
                     cached |-> TRUE,
                     timestamp |-> loadCache(cacheFile, now)[1].timestamp,
                     age |-> now - loadCache(cacheFile, now)[1].timestamp[1]])
          /\ spc' = "done"
          /\ UNCHANGED <<sgrp, requests>>
     ELSE /\ sgrp' = [g \in Groups |-> [st |-> "fetch", url |-> 1,
                                        res |-> <<>>]]
          /\ requests' = requests \cup {<<"server", g, 1>> : g \in Groups}
          /\ spc' = "fetching"
          /\ UNCHANGED response
  /\ UNCHANGED <<fnVars, uiVars, variant, now, localStorage, hookState, pc,
                 scanLocals,
                 masterList, seenIds, grp, order, writes, cacheFile>>

\* the loop of fetchGroupData moves to the next url, or returns []
SrvNextUrl(g) ==
  IF sgrp[g].url < 2
  THEN /\ sgrp' = [sgrp EXCEPT ![g] = [st |-> "fetch", url |-> @.url + 1,
                                       res |-> <<>>]]
       /\ requests' = requests \cup {<<"server", g, sgrp[g].url + 1>>}
  ELSE /\ sgrp' = [sgrp EXCEPT ![g].st = "settled"]
       /\ UNCHANGED requests

\* fetch rejects, is aborted after 10 s, or answers non-2xx
SrvFetchFails(g) ==
  /\ spc = "fetching"
  /\ sgrp[g].st = "fetch"
  /\ SrvNextUrl(g)
  /\ UNCHANGED <<fnVars, uiVars, variant, now, localStorage, hookState, pc,
                 scanLocals,
                 masterList, seenIds, grp, order, writes, cacheFile, spc,
                 response>>

SrvFetchOk(g) ==
  /\ spc = "fetching"
  /\ sgrp[g].st = "fetch"
  /\ sgrp' = [sgrp EXCEPT ![g].st = "body"]
  /\ UNCHANGED <<fnVars, uiVars, variant, now, localStorage, hookState, pc,
                 scanLocals,
                 masterList, seenIds, grp, order, requests, writes, cacheFile,
                 spc, response>>

\* response.text() settles (None: it rejects)
SrvBodyArrives(g) ==
  /\ spc = "fetching"
  /\ sgrp[g].st = "body"
  /\ \E body \in {None} \cup {Some(t) : t \in Texts(g)} :
       IF body # None /\ Len(body[1]) > MIN_BODY
          /\ Len(SrvParsed[g][body[1]]) > 0
       THEN /\ sgrp' = [sgrp EXCEPT ![g] = [st |-> "settled", url |-> @.url,
                                            res |-> SrvParsed[g][body[1]]]]
            /\ UNCHANGED requests
       ELSE SrvNextUrl(g)
  /\ UNCHANGED <<fnVars, uiVars, variant, now, localStorage, hookState, pc,
                 scanLocals,
                 masterList, seenIds, grp, order, writes, cacheFile, spc,
                 response>>

\* the upstream body never completes: fetchGroupData stays pending
SrvBodyHangs(g) ==
  /\ spc = "fetching"
  /\ sgrp[g].st = "body"
  /\ sgrp' = [sgrp EXCEPT ![g].st = "hung"]
  /\ UNCHANGED <<fnVars, uiVars, variant, now, localStorage, hookState, pc,
                 scanLocals, masterList, seenIds, grp, order, requests,
                 writes, cacheFile, spc, response>>

\* the handler's dedup loop over results, in GROUP_MAP order
RECURSIVE SrvDedup(_, _)
SrvDedup(g, seen) ==
  IF g > NumGroups THEN <<>>
  ELSE UniqueInGroup(sgrp[g].res, seen)
       \o SrvDedup(g + 1, seen \cup IdsOf(sgrp[g].res))

\* Promise.all has resolved: 503, or saveCache and the 200 answer
SrvFinish ==
  /\ spc = "fetching"
  /\ \A g \in Groups : sgrp[g].st = "settled"
  /\ LET allSatellites == SrvDedup(1, {})
     IN  IF Len(allSatellites) = 0
         THEN /\ response' =
                   Some([code |-> 503,
                         error |-> "Failed to fetch satellite data from all sources",
                         satellites |-> <<>>, cached |-> FALSE])
              /\ UNCHANGED <<cacheFile, writes>>
         ELSE /\ \E stored \in BOOLEAN :   \* writeFileSync may throw
                   IF stored
                   THEN /\ cacheFile' = Some(Envelope(allSatellites, Some(now)))
                        /\ writes' = Append(writes, CACHE_FILE)
                   ELSE UNCHANGED <<cacheFile, writes>>
              /\ response' =
                   Some([code |-> 200, satellites |-> allSatellites,
                         cached |-> FALSE, timestamp |-> Some(now),
                         count |-> Len(allSatellites)])
  /\ spc' = "done"
  /\ UNCHANGED <<fnVars, uiVars, variant, now, localStorage, hookState, pc,
                 scanLocals,
                 masterList, seenIds, grp, order, requests, sgrp>>

(***************************************************************************)
(* The API loader: one request to /api/satellites                          *)
(***************************************************************************)
ApiStartFetch ==
  /\ pc = "mount"
  /\ variant = "api"
  /\ ~CacheUsable(localStorage, now)
  /\ cachedData' = ScanData(localStorage, now)
  /\ cacheTimestamp' = ScanTimestamp(localStorage, now)
  /\ usedKey' = ScanKey(localStorage, now)
  /\ status' = STATUS_SYNCING
  /\ requests' = requests \cup {<<"client", 0, 1>>}
  /\ pc' = "apiwait"
  /\ UNCHANGED <<fnVars, uiVars, variant, srvVars, now, localStorage,
                 satellites, loading,
                 error, masterList, seenIds, grp, order, writes>>

\* the catch of the API fetch: stale cache if any, else the error state
ApiFallback ==
  /\ IF cachedData # None
     THEN IF RestoreThrows(cachedData[1])
          THEN /\ error' = "TypeError"
               /\ status' = STATUS_ERROR
               /\ UNCHANGED satellites
          ELSE /\ satellites' = Restore(cachedData[1])
               /\ status' = STATUS_OFFLINE
               /\ UNCHANGED error
     ELSE /\ error' = "Failed to load satellite data"
          /\ status' = STATUS_ERROR
          /\ UNCHANGED satellites
  /\ loading' = FALSE

\* the sat => ({...sat, isVisible, satrec}) map throws on a missing line
ApiProcessThrows(data) ==
  \E i \in 1..Len(data) : ~({"tle1", "tle2"} \subseteq DOMAIN data[i])

ApiProcess(data) ==
  [i \in 1..Len(data) |->
     [f \in DOMAIN data[i] \cup {"isVisible", "satrec"} |->
        IF f = "satrec" THEN twoline2satrec(data[i].tle1, data[i].tle2)
        ELSE IF f = "isVisible" THEN TRUE ELSE data[i][f]]]

\* the fetch rejects or is aborted after 60 s
ApiFetchFails ==
  /\ pc = "apiwait"
  /\ ApiFallback
  /\ pc' = "done"
  /\ UNCHANGED <<fnVars, uiVars, variant, srvVars, now, localStorage,
                 scanLocals, masterList,
                 seenIds, grp, order, requests, writes>>

\* the headers of the answer came (the 60 s timer is cleared) and its body
\* never completes: response.json() stays pending
ApiBodyHangs ==
  /\ pc = "apiwait"
  /\ response # None
  /\ pc' = "apihung"
  /\ UNCHANGED <<fnVars, uiVars, variant, srvVars, now, localStorage,
                 hookState,
                 scanLocals, masterList, seenIds, grp, order, requests,
                 writes>>

\* the answer arrives
ApiResponse ==
  /\ pc = "apiwait"
  /\ response # None
  /\ IF response[1].code = 200 /\ Len(response[1].satellites) > 0
        /\ ~ApiProcessThrows(response[1].satellites)
     THEN /\ satellites' = ApiProcess(response[1].satellites)
          /\ \E stored \in BOOLEAN :   \* setItem may throw (quota)
               IF stored
               THEN /\ localStorage' =
                         setItem(localStorage, CACHE_KEY,
                                 Envelope(StripSatrec(response[1].satellites),
                                          Some(now)))
                    /\ writes' = Append(writes, CACHE_KEY)
                    /\ upstream' = response[1].timestamp
               ELSE UNCHANGED <<localStorage, writes, upstream>>
          /\ status' = STATUS_ACTIVE
          /\ loading' = FALSE
          /\ UNCHANGED error
     ELSE /\ ApiFallback
          /\ UNCHANGED <<localStorage, writes, upstream>>
  /\ pc' = "done"
  /\ UNCHANGED <<fnVars, simVars, gateVars, loads, variant, srvVars, now,
                 scanLocals, masterList, seenIds, grp,
                 order, requests>>

\* time passes
Tick ==
  /\ now < StartTime + MaxTicks
  /\ now' = now + 1
  /\ UNCHANGED <<fnVars, uiVars, variant, srvVars, localStorage, hookState,
                 pc, scanLocals, masterList,
                 seenIds, grp, order, requests, writes>>

Next ==
  \/ UseFreshCache
  \/ DirectStartFetch
  \/ \E g \in Groups : FetchFails(g) \/ FetchOk(g) \/ BodyArrives(g)
  \/ \E g \in Groups : BodyHangs(g)
  \/ DirectFinish
  \/ ApiStartFetch
  \/ ApiFetchFails
  \/ ApiResponse
  \/ ApiBodyHangs
  \/ SrvReceive
  \/ \E g \in Groups : SrvFetchFails(g) \/ SrvFetchOk(g) \/ SrvBodyArrives(g)
  \/ \E g \in Groups : SrvBodyHangs(g)
  \/ SrvFinish
  \/ Tick

Spec == Init /\ [][Next]_vars

\* The page of the API deployment is loaded again in the same browser, some
\* hours later: the hook mounts with its initial state, localStorage is
\* kept; the next request meets a new invocation of the handler, whose
\* cache file is kept or lost with the instance. requests and writes start
\* over with the load.
Reload ==
  /\ variant = "api"
  /\ pc = "done"
  /\ loads < MaxLoads
  /\ loads' = loads + 1
  /\ \E d \in ReturnAfter : now' = now + d
  /\ satellites' = <<>>
  /\ loading' = TRUE
  /\ error' = NoError
  /\ status' = STATUS_SYNCING
  /\ pc' = "mount"
  /\ cachedData' = None
  /\ cacheTimestamp' = None
  /\ usedKey' = None
  /\ requests' = {}
  /\ writes' = <<>>
  /\ \E kept \in BOOLEAN : cacheFile' = IF kept THEN cacheFile ELSE None
  /\ spc' = "idle"
  /\ sgrp' = [g \in Groups |-> [st |-> "idle", url |-> 0, res |-> <<>>]]
  /\ response' = None
  /\ UNCHANGED <<fnVars, simVars, gateVars, variant, localStorage, upstream,
                 masterList, seenIds, grp, order>>

ReloadInit == Init /\ variant = "api"
ReloadNext ==
  \/ UseFreshCache
  \/ ApiStartFetch
  \/ ApiFetchFails
  \/ ApiResponse
  \/ ApiBodyHangs
  \/ SrvReceive
  \/ \E g \in Groups : SrvFetchFails(g) \/ SrvFetchOk(g) \/ SrvBodyArrives(g)
  \/ \E g \in Groups : SrvBodyHangs(g)
  \/ SrvFinish
  \/ Tick
  \/ Reload
ReloadSpec == ReloadInit /\ [][ReloadNext]_vars

\* Every pending step is eventually taken: a fetch settles by its answer or
\* by its timer, and the continuations run on the event loop
FairSpec == Spec /\ WF_vars(Next)

(***************************************************************************)
(* Orbital propagation services (propagation.js)                           *)
(***************************************************************************)
\* What satellite.js does with the arguments of one call: twoline2satrec
\* throws; propagate throws; propagate returns null; propagate returns a
\* record whose position and velocity are false; propagate returns a state
LibOutcomes ==
  {"satrec-throws", "propagate-throws", "propagate-null", "no-position",
   "state"}

\* the state satellite.propagate computes for these elements at this time
PositionAndVelocity(tle1, tle2, time) ==
  [position |-> <<"r", tle1, tle2, time>>,
   velocity |-> <<"v", tle1, tle2, time>>]

\* how a call ends: it returns value (None is null), or it throws
Returned(v) == [threw |-> FALSE, value |-> v]
Thrown == [threw |-> TRUE, value |-> None]

\* the try block of propagateSatellite; reading .position of null throws
propagateTry(tle1, tle2, time, lib) ==
  IF lib \in {"satrec-throws", "propagate-throws", "propagate-null"}
  THEN Thrown
  ELSE IF lib = "no-position" THEN Returned(None)
  ELSE Returned(Some(PositionAndVelocity(tle1, tle2, time)))

\* the function without its catch clause
propagateSatellite_NoCatch(tle1, tle2, time, lib) ==
  propagateTry(tle1, tle2, time, lib)

\* the time is read from the clock SIM_STATE instead of the argument
propagateSatellite_Clock(tle1, tle2, time, lib) ==
  IF propagateTry(tle1, tle2, realTime, lib).threw THEN Returned(None)
  ELSE propagateTry(tle1, tle2, realTime, lib)

\* propagateSatellite(tle1, tle2, time); lib is what the library does
propagateSatellite(tle1, tle2, time, lib) ==
  IF propagateTry(tle1, tle2, time, lib).threw THEN Returned(None)
  ELSE propagateTry(tle1, tle2, time, lib)

\* parseFloat, up to the class of its value: leading white space is
\* skipped, then an optional sign and the longest run of digits with at most
\* one decimal point are read
parseFloat(s) ==
  LET start == {i \in 1..Len(s) : s[i] \notin WhiteSpace}
      t == IF start = {} THEN <<>>
           ELSE SubSeq(s, CHOOSE i \in start : \A j \in start : i <= j,
                       Len(s))
      body == IF t # <<>> /\ t[1] \in {"+", "-"} THEN Tail(t) ELSE t
      numeric(k) ==
        /\ \A i \in 1..k : body[i] \in DigitChars \cup {"."}
        /\ Cardinality({i \in 1..k : body[i] = "."}) <= 1
      len == CHOOSE k \in 0..Len(body) :
               numeric(k) /\ \A m \in 0..Len(body) : numeric(m) => m <= k
      digits == {i \in 1..len : body[i] \in DigitChars}
  IN  IF digits = {} THEN "NaN"
      ELSE IF \A i \in digits : body[i] = "0" THEN "zero"
      ELSE "nonzero"

\* getOrbitalPeriod(tle2): 100, or (24 * 60) / meanMotion
getOrbitalPeriod(tle2) ==
  IF tle2 = <<>> THEN "100"
  ELSE IF parseFloat(substring(tle2, 52, 63)) \in {"NaN", "zero"} THEN "100"
  ELSE "1440/n"

\* the semi-major axis Math.pow(mu / Math.pow(n, 2), 1 / 3)
SemiMajorAxis(n) ==
  IF n = "NaN" THEN "NaN" ELSE IF n = "zero" THEN "Infinity" ELSE "finite"

\* a * (1 - e) and a * (1 + e), up to the class of the value
Scaled(a, e) == IF a = "NaN" \/ e = "NaN" THEN "NaN" ELSE a

\* the try block of getSatelliteStats.  The eccentricity is parsed from
\* "0." followed by the field, so parseFloat finds a number whatever the
\* field holds.
statsTry(tle1, tle2, time, lib) ==
  IF lib \in {"satrec-throws", "propagate-throws", "propagate-null"}
  THEN Thrown
  ELSE LET n == parseFloat(substring(tle2, 52, 63))
           e == parseFloat(<<"0", ".">> \o trim(substring(tle2, 34, 42)))
           a == SemiMajorAxis(n)
       IN  Returned(Some(
             [velocity |-> IF lib = "state" THEN "finite" ELSE "0",
              apogee |-> Scaled(a, e),
              perigee |-> Scaled(a, e),
              noradId |-> trim(substring(tle2, 2, 7)),
              intlId |-> trim(substring(tle1, 9, 17)),
              period |-> getOrbitalPeriod(tle2)]))

\* getSatelliteStats(tle1, tle2, time); lib is what the library does
getSatelliteStats(tle1, tle2, time, lib) ==
  IF statsTry(tle1, tle2, time, lib).threw THEN Returned(None)
  ELSE statsTry(tle1, tle2, time, lib)

(***************************************************************************)
(* Calls of the parser's functions on their own: one call per behaviour,   *)
(* its arguments drawn from the sets below                                 *)
(***************************************************************************)
mainVars == <<variant, now, localStorage, satellites, loading, error, status,
              pc, cachedData, cacheTimestamp, usedKey, masterList, seenIds,
              grp, order, requests, writes, cacheFile, spc, sgrp, response>>

propVars == <<fnTime, fnLib, fnState, fnStats>>

\* characters tried at the first, a middle and the last summed position
FnChars == {"0", "3", "7", "9", "-", "A", " "}
\* characters tried at the checksum position
FnCheckChars == DigitChars \cup {"X", " ", "-"}
\* a 69-character line: c0 at index 0, c33 at 33, c67 at 67, chk at 68
FnLine(c0, c33, c67, chk) ==
  <<c0>> \o Pad(32) \o <<c33>> \o Pad(33) \o <<c67, chk>>
FnLines ==
  {FnLine(a, b, c, k) : a \in FnChars, b \in FnChars, c \in FnChars,
                        k \in FnCheckChars}
  \cup {SubSeq(FnLine("9", "9", "9", "7"), 1, n) : n \in {0, 1, 68}}
  \cup {FnLine("9", a, "9", k) \o <<"5">> : a \in FnChars, k \in FnCheckChars}

FnInit ==
  /\ variant = "direct"
  /\ now = StartTime
  /\ localStorage = [k \in {CACHE_KEYS[1], CACHE_KEYS[2], CACHE_KEYS[3]} |->
                       None]
  /\ satellites = <<>>
  /\ loading = TRUE
  /\ error = NoError
  /\ status = STATUS_SYNCING
  /\ pc = "mount"
  /\ cachedData = None
  /\ cacheTimestamp = None
  /\ usedKey = None
  /\ masterList = <<>>
  /\ seenIds = {}
  /\ grp = [g \in Groups |-> [st |-> "idle", url |-> 0, res |-> None]]
  /\ order = <<>>
  /\ requests = {}
  /\ writes = <<>>
  /\ cacheFile = None
  /\ spc = "idle"
  /\ sgrp = [g \in Groups |-> [st |-> "idle", url |-> 0, res |-> <<>>]]
  /\ response = None
  /\ fnOp = "none"
  /\ fnArg = <<>>
  /\ fnLabel = ""
  /\ fnValid = FALSE
  /\ fnCategory = ""
  /\ fnParsed = <<<<>>, <<>>>>
  /\ fnTime = 0
  /\ fnLib = ""
  /\ fnState = [threw |-> FALSE, value |-> <<>>]
  /\ fnStats = [threw |-> FALSE, value |-> <<>>]
  /\ SimIdle
  /\ GateIdle
  /\ SessionIdle

\* validateTLEChecksum(line)
CallValidate ==
  /\ fnOp = "none"
  /\ \E line \in FnLines :
       /\ fnArg' = <<line>>
       /\ fnValid' = validateTLEChecksum(line)
  /\ fnOp' = "validateTLEChecksum"
  /\ UNCHANGED <<mainVars, uiVars, fnLabel, fnCategory, fnParsed, propVars>>

\* validateTLEChecksum on an accepted line with one summed digit replaced
CallCorrupted ==
  /\ fnOp = "validateTLEChecksum"
  /\ fnValid = TRUE
  /\ \E pos \in 1..(LINE_LEN - 1) :
       /\ fnArg[1][pos] \in DigitChars
       /\ \E d \in DigitChars \ {fnArg[1][pos]} :
            LET corrupted == [fnArg[1] EXCEPT ![pos] = d]
            IN  /\ fnArg' = <<fnArg[1], corrupted>>
                /\ fnValid' = validateTLEChecksum(corrupted)
  /\ fnOp' = "corrupted"
  /\ UNCHANGED <<mainVars, uiVars, fnLabel, fnCategory, fnParsed, propVars>>

\* names with and without the station and the debris markers
FnNames ==
  LET st == {<<>>, Str_ISS, Str_CSS, Str_TIANGONG, <<"i", "s", "s">>}
      db == {<<>>, Str_DEB, Str_RB, <<"R", " ", "B">>}
  IN  {<<"S", "L", " ">> \o a \o <<" ">> \o b : a \in st, b \in db}
      \cup {b \o <<" ">> \o a : a \in st, b \in db}
FnLabels == {GROUP_MAP[g].label : g \in 1..Len(GROUP_MAP)}

\* the category branch of parseSingleTLE
CallCategory ==
  /\ fnOp = "none"
  /\ \E name \in FnNames, label \in FnLabels :
       /\ fnArg' = <<name>>
       /\ fnLabel' = label
       /\ fnCategory' = categoryOf(name, label)
  /\ fnOp' = "categoryOf"
  /\ UNCHANGED <<mainVars, uiVars, fnValid, fnParsed, propVars>>

\* bodies of up to n blocks, as lists of lines
FnBlocks == {BlockA(1), BlockB(1), BlockBad1(1), BlockBad2(1)}
RECURSIVE FnBodies(_)
FnBodies(n) ==
  IF n = 0 THEN {<<>>}
  ELSE FnBodies(n - 1)
       \cup {b \o blk : b \in FnBodies(n - 1), blk \in FnBlocks}
\* each body, with and without a trailing partial block, LF or CRLF ended
FnTexts ==
  {Join(b \o rest, sep) :
     b \in FnBodies(MaxBlocks),
     rest \in {<<>>, <<NameB(1)>>, SubSeq(BlockA(1), 1, 2)},
     sep \in {LF, CRLF}}

\* parseBulkTLE(text, label) of the loader and of the handler
CallParse ==
  /\ fnOp = "none"
  /\ \E text \in FnTexts, label \in FnLabels :
       /\ fnArg' = <<text>>
       /\ fnLabel' = label
       /\ fnParsed' = <<parseBulkTLE(text, label),
                        srvParseBulkTLE(text, label)>>
  /\ fnOp' = "parseBulkTLE"
  /\ UNCHANGED <<mainVars, uiVars, fnValid, fnCategory, propVars>>

\* line 1 with the international designator at columns 9..16
FnLine1 ==
  <<"1", " ">> \o Id_A \o <<"U", " ", "9", "8", "0", "6", "7", "A">>
  \o Pad(53) \o <<"7">>
\* line 2 with ecc at columns 34..41 and mm at columns 52..62
FnLine2(ecc, mm) ==
  <<"2", " ">> \o Id_A \o Pad(27) \o ecc \o Pad(8 - Len(ecc)) \o Pad(10)
  \o mm \o Pad(11 - Len(mm)) \o Pad(5) \o <<"6">>
\* field contents: well-formed, zero, blank, not a number
FnEccFields == {<<"0", "0", "0", "6">>, <<"0">>, <<>>, <<"X", "1">>}
FnMeanMotions ==
  {<<"1", "5", ".", "5">>, <<" ", "2", ".", "0", "0", "5">>, <<"0", ".", "0">>,
   <<"0">>, <<>>, <<"X", "5", ".", "5">>, <<".">>, <<"-">>}
FnLines2 == {FnLine2(e, m) : e \in FnEccFields, m \in FnMeanMotions}
FnTimes == {0, 1}

\* propagateSatellite(tle1, tle2, time)
CallPropagate ==
  /\ fnOp = "none"
  /\ \E tle2 \in FnLines2, time \in FnTimes, lib \in LibOutcomes :
       /\ fnArg' = <<FnLine1, tle2>>
       /\ fnTime' = time
       /\ fnLib' = lib
       /\ fnState' = propagateSatellite(FnLine1, tle2, time, lib)
  /\ fnOp' = "propagateSatellite"
  /\ UNCHANGED <<mainVars, uiVars, fnLabel, fnValid, fnCategory, fnParsed,
                 fnStats>>

\* getSatelliteStats(tle1, tle2, time)
CallStats ==
  /\ fnOp = "none"
  /\ \E tle2 \in FnLines2, time \in FnTimes, lib \in LibOutcomes :
       /\ fnArg' = <<FnLine1, tle2>>
       /\ fnTime' = time
       /\ fnLib' = lib
       /\ fnStats' = getSatelliteStats(FnLine1, tle2, time, lib)
  /\ fnOp' = "getSatelliteStats"
  /\ UNCHANGED <<mainVars, uiVars, fnLabel, fnValid, fnCategory, fnParsed,
                 fnState>>

FnNext ==
  \/ CallValidate
  \/ CallCorrupted
  \/ CallCategory
  \/ CallParse
  \/ CallPropagate
  \/ CallStats

FnSpec == FnInit /\ [][FnNext]_vars

(***************************************************************************)
(* The rendered scene: the simulated clock SIM_STATE, the frame loop that  *)
(* runs the useFrame subscribers in the order of their mounting, and the   *)
(* transport controls of the App                                           *)
(***************************************************************************)
MaxFrames == 2
SimStart == 1000

\* the speed buttons
SPEEDS == {1, 10, 100}
\* delta of a frame, in ms
FrameDeltas == {16, 33}

\* useFrame subscribers, in the order the Canvas mounts them
FrameOrder_DriverSecond ==
  <<"SunLight", "SimulationManager", "Earth", "SatGroup", "Satellite">>
FrameOrder ==
  <<"SimulationManager", "SunLight", "Earth", "SatGroup", "Satellite">>

\* the catalog the hook publishes, one entity at a time
SimCatalog ==
  <<[id |-> Id_A, tle1 |-> FnLine1,
     tle2 |-> FnLine2(<<"0", "0", "0", "6">>, <<"1", "5", ".", "5">>)],
    [id |-> Id_B, tle1 |-> FnLine1,
     tle2 |-> FnLine2(<<"0">>, <<"2", ".", "0">>)]>>

SceneInit ==
  /\ variant = "direct"
  /\ now = StartTime
  /\ localStorage = [k \in {CACHE_KEYS[1], CACHE_KEYS[2], CACHE_KEYS[3]} |->
                       None]
  /\ satellites = <<>>
  /\ loading = TRUE
  /\ error = NoError
  /\ status = STATUS_SYNCING
  /\ pc = "mount"
  /\ cachedData = None
  /\ cacheTimestamp = None
  /\ usedKey = None
  /\ masterList = <<>>
  /\ seenIds = {}
  /\ grp = [g \in Groups |-> [st |-> "idle", url |-> 0, res |-> None]]
  /\ order = <<>>
  /\ requests = {}
  /\ writes = <<>>
  /\ cacheFile = None
  /\ spc = "idle"
  /\ sgrp = [g \in Groups |-> [st |-> "idle", url |-> 0, res |-> <<>>]]
  /\ response = None
  /\ fnOp = "none"
  /\ fnArg = <<>>
  /\ fnLabel = ""
  /\ fnValid = FALSE
  /\ fnCategory = ""
  /\ fnParsed = <<<<>>, <<>>>>
  /\ fnTime = 0
  /\ fnLib = ""
  /\ fnState = [threw |-> FALSE, value |-> <<>>]
  /\ fnStats = [threw |-> FALSE, value |-> <<>>]
  /\ GateIdle
  /\ SessionIdle
  \* SIM_STATE was created when the module was loaded, before the mount
  /\ simTime = SimStart - 500
  /\ realTime = SimStart - 500
  /\ speed = 1
  /\ paused = FALSE
  /\ appSpeed = 1
  /\ appPaused = FALSE
  /\ wall = SimStart
  /\ frameDelta = 0
  /\ framePc = 0
  /\ frames = 0
  /\ ticks = 0
  /\ reads = {}
  /\ selectedSatId = 0
  /\ repeat = None
  /\ lastOp = "none"

\* the first call of propagateSatellite will be marked
SimInit == SceneInit /\ marked = None

\* no call of propagateSatellite is followed
Unfollowed == Some([args |-> <<>>, lib |-> "none", ret |-> Returned(None)])
ClockInit == SceneInit /\ marked = Unfollowed

\* handlers run to completion: an event is handled between frames
BetweenFrames == framePc = 0

\* a consumer calls propagateSatellite(tle1, tle2, new Date(simTime)).  The
\* first call is marked; satellite.js does for the marked arguments what it
\* did before, and a later call with these arguments is compared with it.
CallAt(sat, time) ==
  IF marked = None
  THEN /\ \E lib \in LibOutcomes :
            marked' = Some([args |-> <<sat.tle1, sat.tle2, time>>,
                            lib |-> lib,
                            ret |-> propagateSatellite(sat.tle1, sat.tle2,
                                                       time, lib)])
       /\ UNCHANGED repeat
  ELSE IF marked[1].args = <<sat.tle1, sat.tle2, time>>
  THEN /\ repeat' = Some(propagateSatellite(sat.tle1, sat.tle2, time,
                                            marked[1].lib))
       /\ UNCHANGED marked
  ELSE UNCHANGED <<marked, repeat>>

\* requestAnimationFrame fires: the frame loop starts with this delta
FrameBegin ==
  /\ BetweenFrames
  /\ frames < MaxFrames
  /\ \E d \in FrameDeltas :
       /\ frameDelta' = d
       /\ wall' = wall + d
  /\ framePc' = 1
  /\ frames' = frames + 1
  /\ lastOp' = "frame"
  /\ UNCHANGED <<mainVars, fnVars, sessionVars,
                 gateVars, simTime, realTime, speed, paused,
                 appSpeed, appPaused, ticks, reads, selectedSatId, marked, repeat>>

\* the driver without its test of paused
SimulationManager_IgnorePause ==
  /\ realTime' = wall
  /\ simTime' = simTime + frameDelta * speed
  /\ ticks' = ticks + 1
  /\ UNCHANGED <<reads, marked, repeat>>

\* SimulationManager's useFrame
SimulationManager ==
  /\ realTime' = wall
  /\ IF ~paused
     THEN /\ simTime' = simTime + frameDelta * speed
          /\ ticks' = ticks + 1
     ELSE UNCHANGED <<simTime, ticks>>
  /\ UNCHANGED <<reads, marked, repeat>>

\* the useFrame of SunLight, Earth, SatGroup: new Date(SIM_STATE.simTime)
ConsumerReads(name) ==
  /\ reads' = reads \cup {<<name, simTime>>}
  /\ UNCHANGED <<simTime, realTime, ticks>>

\* the next subscriber's callback runs
FrameStep ==
  /\ framePc \in 1..Len(FrameOrder)
  /\ LET name == FrameOrder[framePc]
     IN  CASE name = "SimulationManager" -> SimulationManager
           [] name \in {"SunLight", "Earth"} ->
                ConsumerReads(name) /\ UNCHANGED <<marked, repeat>>
           [] name = "SatGroup" ->
                \* returns before the read when the group is empty
                /\ IF Len(satellites) = 0
                   THEN UNCHANGED <<reads, simTime, realTime, ticks>>
                   ELSE ConsumerReads(name)
                /\ UNCHANGED <<marked, repeat>>
           [] name = "Satellite" ->
                \* mounted for the selected satellite only
                IF selectedSatId = 0
                THEN UNCHANGED <<reads, simTime, realTime, ticks, marked,
                                 repeat>>
                ELSE /\ ConsumerReads(name)
                     /\ CallAt(satellites[selectedSatId], simTime)
  /\ framePc' = framePc + 1
  /\ lastOp' = FrameOrder[framePc]
  /\ UNCHANGED <<mainVars, fnVars, sessionVars,
                 gateVars, speed, paused, appSpeed,
                 appPaused, wall, frameDelta, frames, selectedSatId>>

\* every subscriber has run: the frame is drawn
FrameEnd ==
  /\ framePc = Len(FrameOrder) + 1
  /\ framePc' = 0
  /\ frameDelta' = 0
  /\ ticks' = 0
  /\ reads' = {}
  /\ lastOp' = "drawn"
  /\ UNCHANGED <<mainVars, fnVars, sessionVars,
                 gateVars, simTime, realTime, speed, paused,
                 appSpeed, appPaused, wall, frames, selectedSatId, marked, repeat>>

\* setSpeed(s)
setSpeed(s) == speed' = s /\ appSpeed' = s
\* setPaused(p)
setPaused(p) == paused' = p /\ appPaused' = p

\* the pause button: setPaused(!paused)
TogglePause ==
  /\ BetweenFrames
  /\ setPaused(~appPaused)
  /\ lastOp' = "pause"
  /\ UNCHANGED <<mainVars, fnVars, sessionVars,
                 gateVars, simTime, realTime, speed,
                 appSpeed, wall, frameDelta, framePc, frames, ticks, reads,
                 selectedSatId, marked, repeat>>

\* a speed button: setSpeed(s); setPaused(false)
ChooseSpeed(s) ==
  /\ BetweenFrames
  /\ setSpeed(s)
  /\ setPaused(FALSE)
  /\ lastOp' = "speed"
  /\ UNCHANGED <<mainVars, fnVars, sessionVars,
                 gateVars, simTime, realTime, wall,
                 frameDelta, framePc, frames, ticks, reads, selectedSatId,
                 marked, repeat>>

\* resetToRealTime
resetToRealTime ==
  /\ BetweenFrames
  /\ simTime' = wall
  /\ setSpeed(1)
  /\ setPaused(FALSE)
  /\ lastOp' = "reset"
  /\ UNCHANGED <<mainVars, fnVars, sessionVars,
                 gateVars, realTime, wall, frameDelta,
                 framePc, frames, ticks, reads, selectedSatId, marked, repeat>>

\* the hook publishes one more entity of the catalog
Publish ==
  /\ BetweenFrames
  /\ Len(satellites) < Len(SimCatalog)
  /\ satellites' = Append(satellites, SimCatalog[Len(satellites) + 1])
  /\ lastOp' = "publish"
  /\ UNCHANGED <<fnVars, sessionVars,
                 gateVars, variant, now, localStorage, loading, error,
                 status, pc, cachedData, cacheTimestamp, usedKey, masterList,
                 seenIds, grp, order, requests, writes, cacheFile, spc, sgrp,
                 response, simTime, realTime, speed, paused, appSpeed,
                 appPaused, wall, frameDelta, framePc, frames, ticks, reads,
                 selectedSatId, marked, repeat>>

\* a click selects a satellite of the list, or the selection is dropped
Select ==
  /\ BetweenFrames
  /\ \E i \in 0..Len(satellites) :
       /\ i # selectedSatId
       /\ selectedSatId' = i
  /\ lastOp' = "select"
  /\ UNCHANGED <<mainVars, fnVars, sessionVars,
                 gateVars, simTime, realTime, speed, paused,
                 appSpeed, appPaused, wall, frameDelta, framePc, frames,
                 ticks, reads, marked, repeat>>

\* the 500 ms interval of the TelemetryPanel propagates the selected one
Telemetry ==
  /\ BetweenFrames
  /\ selectedSatId # 0
  /\ CallAt(satellites[selectedSatId], simTime)
  /\ lastOp' = "telemetry"
  /\ UNCHANGED <<mainVars, fnVars, sessionVars,
                 gateVars, simTime, realTime, speed, paused,
                 appSpeed, appPaused, wall, frameDelta, framePc, frames,
                 ticks, reads, selectedSatId>>

SimNext ==
  \/ FrameBegin
  \/ FrameStep
  \/ FrameEnd
  \/ TogglePause
  \/ \E s \in SPEEDS : ChooseSpeed(s)
  \/ resetToRealTime
  \/ Publish
  \/ Select
  \/ Telemetry

SimSpec == SimInit /\ [][SimNext]_vars
ClockSpec == ClockInit /\ [][SimNext]_vars

(***************************************************************************)
(* The loading screen: the counter of LoadingScreen and the App's effect   *)
(* that starts the exit and hides the screen.  Times are in ms; a timer    *)
(* fires at its due time or later.                                         *)
(***************************************************************************)
MaxClock == 4000    \* how long the loading screen is followed, in ms
MaxLate == 20       \* how late a timer may fire, in ms
GateStart == 5000   \* Date.now() at the first render of the App

MIN_DISPLAY == 2000
EXIT_ANIMATION == 800
START_DELAY == 100
COUNT_INTERVAL == 20
COUNT_MAX == 100
COMPLETE_DELAY == 300

\* the delay before the counter starts: components/LoadingScreen waits
\* START_DELAY, the copy at the root starts its interval at once
StartDelays == {0, START_DELAY}

GateInit ==
  /\ variant = "direct"
  /\ now = StartTime
  /\ localStorage = [k \in {CACHE_KEYS[1], CACHE_KEYS[2], CACHE_KEYS[3]} |->
                       None]
  /\ satellites = <<>>
  /\ loading = TRUE
  /\ error = NoError
  /\ status = STATUS_SYNCING
  /\ pc = "mount"
  /\ cachedData = None
  /\ cacheTimestamp = None
  /\ usedKey = None
  /\ masterList = <<>>
  /\ seenIds = {}
  /\ grp = [g \in Groups |-> [st |-> "idle", url |-> 0, res |-> None]]
  /\ order = <<>>
  /\ requests = {}
  /\ writes = <<>>
  /\ cacheFile = None
  /\ spc = "idle"
  /\ sgrp = [g \in Groups |-> [st |-> "idle", url |-> 0, res |-> <<>>]]
  /\ response = None
  /\ fnOp = "none"
  /\ fnArg = <<>>
  /\ fnLabel = ""
  /\ fnValid = FALSE
  /\ fnCategory = ""
  /\ fnParsed = <<<<>>, <<>>>>
  /\ fnTime = 0
  /\ fnLib = ""
  /\ fnState = [threw |-> FALSE, value |-> <<>>]
  /\ fnStats = [threw |-> FALSE, value |-> <<>>]
  /\ SimIdle
  /\ SessionIdle
  /\ uiNow = GateStart
  /\ loadStartTime = GateStart
  /\ count = 0
  /\ \E d \in StartDelays : startDue = GateStart + d
  /\ tickDue = -1
  /\ completeDue = {}
  /\ exitDue = -1
  /\ hideDue = -1
  /\ animationComplete = FALSE
  /\ isExiting = FALSE
  /\ showLoadingScreen = TRUE

Due(t) == t >= 0 /\ uiNow >= t

\* the exit condition with the loader's flag left out
ExitReady_AnimationOnly(l, a) == a
\* if (!loading && animationComplete)
ExitReady(l, a) == ~l /\ a

\* Math.max(0, minDisplayTime - elapsed)
RemainingTime(elapsed) ==
  IF MIN_DISPLAY - elapsed > 0 THEN MIN_DISPLAY - elapsed ELSE 0

\* the App's effect on [loading, animationComplete, loadStartTime]: the
\* cleanup of the previous run clears its exit timer, then the body runs
AppEffect(l, a) ==
  exitDue' = IF ExitReady(l, a)
             THEN uiNow + RemainingTime(uiNow - loadStartTime)
             ELSE -1

\* the App renders again: onComplete is a new function, so the effect of a
\* mounted LoadingScreen on [count, onComplete] runs again
Rerender(mounted) ==
  completeDue' = IF mounted /\ count = COUNT_MAX
                 THEN completeDue \cup {uiNow + COMPLETE_DELAY}
                 ELSE completeDue

\* the timers that are set
PendingTimers ==
  {t \in {startDue, tickDue, exitDue, hideDue} : t >= 0} \cup completeDue

\* time passes; no timer is left waiting for more than MaxLate
AdvanceTime ==
  /\ uiNow < GateStart + MaxClock
  /\ \A t \in PendingTimers : uiNow + COUNT_INTERVAL <= t + MaxLate
  /\ uiNow' = uiNow + COUNT_INTERVAL
  /\ UNCHANGED <<mainVars, fnVars, sessionVars,
                 simVars, loadStartTime, count, startDue,
                 tickDue, completeDue, exitDue, hideDue, animationComplete,
                 isExiting, showLoadingScreen>>

\* startTimeout fires: setInterval
StartCounter ==
  /\ Due(startDue)
  /\ startDue' = -1
  /\ tickDue' = uiNow + COUNT_INTERVAL
  /\ UNCHANGED <<mainVars, fnVars, sessionVars,
                 simVars, uiNow, loadStartTime, count,
                 completeDue, exitDue, hideDue, animationComplete, isExiting,
                 showLoadingScreen>>

\* the interval fires: setCount, and the effect on count when it is 100
CounterTick ==
  /\ Due(tickDue)
  /\ IF count >= COUNT_MAX
     THEN /\ tickDue' = -1
          /\ UNCHANGED <<count, completeDue>>
     ELSE /\ tickDue' = tickDue + COUNT_INTERVAL
          /\ count' = count + 1
          /\ completeDue' =
               IF showLoadingScreen /\ count + 1 = COUNT_MAX
               THEN completeDue \cup {uiNow + COMPLETE_DELAY}
               ELSE completeDue
  /\ UNCHANGED <<mainVars, fnVars, sessionVars,
                 simVars, uiNow, loadStartTime, startDue,
                 exitDue, hideDue, animationComplete, isExiting,
                 showLoadingScreen>>

\* a timer of the count effect fires: onComplete()
AnimationCompletes ==
  /\ \E t \in completeDue :
       /\ uiNow >= t
       /\ IF animationComplete
          THEN /\ completeDue' = completeDue \ {t}
               /\ UNCHANGED exitDue
          ELSE /\ completeDue' =
                    (completeDue \ {t})
                    \cup (IF showLoadingScreen /\ count = COUNT_MAX
                          THEN {uiNow + COMPLETE_DELAY} ELSE {})
               /\ AppEffect(loading, TRUE)
  /\ animationComplete' = TRUE
  /\ UNCHANGED <<mainVars, fnVars, sessionVars,
                 simVars, uiNow, loadStartTime, count,
                 startDue, tickDue, hideDue, isExiting, showLoadingScreen>>

\* the hook ends its load: setLoading(false)
LoadSettles ==
  /\ loading = TRUE
  /\ loading' = FALSE
  /\ AppEffect(FALSE, animationComplete)
  /\ Rerender(showLoadingScreen)
  /\ UNCHANGED <<fnVars, sessionVars,
                 simVars, variant, now, localStorage, satellites,
                 error, status, pc, cachedData, cacheTimestamp, usedKey,
                 masterList, seenIds, grp, order, requests, writes,
                 cacheFile, spc, sgrp, response, uiNow, loadStartTime,
                 count, startDue, tickDue, hideDue, animationComplete,
                 isExiting, showLoadingScreen>>

\* exitTimer fires: setIsExiting(true), and the hide timer is set
ExitFires ==
  /\ Due(exitDue)
  /\ exitDue' = -1
  /\ isExiting' = TRUE
  /\ hideDue' = uiNow + EXIT_ANIMATION
  /\ Rerender(showLoadingScreen)
  /\ UNCHANGED <<mainVars, fnVars, sessionVars,
                 simVars, uiNow, loadStartTime, count,
                 startDue, tickDue, animationComplete, showLoadingScreen>>

\* hideTimer fires: setShowLoadingScreen(false); LoadingScreen unmounts and
\* its cleanup clears startTimeout
HideFires ==
  /\ Due(hideDue)
  /\ hideDue' = -1
  /\ showLoadingScreen' = FALSE
  /\ startDue' = -1
  /\ UNCHANGED <<mainVars, fnVars, sessionVars,
                 simVars, uiNow, loadStartTime, count,
                 tickDue, completeDue, exitDue, animationComplete,
                 isExiting>>

GateNext ==
  \/ AdvanceTime
  \/ StartCounter
  \/ CounterTick
  \/ AnimationCompletes
  \/ LoadSettles
  \/ ExitFires
  \/ HideFires

GateSpec == GateInit /\ [][GateNext]_vars

(***************************************************************************)
(* Properties                                                              *)
(***************************************************************************)
CountOf(seq, x) == Cardinality({i \in 1..Len(seq) : seq[i] = x})
UniqueIds(list) ==
  \A i, j \in 1..Len(list) : list[i].id = list[j].id => i = j
HasDuplicateId(list) == ~UniqueIds(list)
\* the load went to the network (no usable cache)
OnNetworkPath == pc \in {"fetching", "apiwait"} \/ requests # {}

\* C1 -- Dedup invariant: while a network aggregation runs and after it, the
\* live list and the master list of the loader, the handler's answer and the
\* cache file it writes hold at most one entity per catalog id, also when two
\* groups, or one group internally, carry the same id.
C1_DedupInvariant ==
  /\ OnNetworkPath /\ status \in {STATUS_SYNCING, STATUS_ACTIVE}
       => UniqueIds(satellites) /\ UniqueIds(masterList)
  /\ CACHE_KEY \in {writes[i] : i \in 1..Len(writes)}
       => UniqueIds([i \in 1..Len(localStorage[CACHE_KEY][1].data) |->
                       localStorage[CACHE_KEY][1].data[i].v])
  /\ response # None /\ response[1].code = 200 /\ ~response[1].cached
       => UniqueIds(response[1].satellites)
  /\ CACHE_FILE \in {writes[i] : i \in 1..Len(writes)}
       => UniqueIds(cacheFile[1].data)

\* C1 witness: both groups answered with the same id, one of them twice, and
\* the finished list holds that id once
C1_Witness ==
  /\ variant = "direct" /\ pc = "done" /\ status = STATUS_ACTIVE
  /\ \A g \in Groups : grp[g].res # None /\ Id_A \in IdsOf(grp[g].res[1])
  /\ \E g \in Groups : HasDuplicateId(grp[g].res[1])
  /\ Cardinality({i \in 1..Len(satellites) : satellites[i].id = Id_A}) = 1

\* C2 -- Atomic cache write: the direct loader writes the current-schema key
\* at most once per load, and only when every group fetch has settled.
C2_AtomicCacheWrite ==
  variant = "direct" =>
    /\ CountOf(writes, CACHE_KEY) <= 1
    /\ writes # <<>> => \A g \in Groups : grp[g].st = "settled"
    /\ (\E g \in Groups : grp[g].st # "settled")
         => localStorage \in InitStorage(variant)

\* C2 witness: the envelope was written although one group had failed
C2_Witness ==
  /\ variant = "direct" /\ writes = <<CACHE_KEY>>
  /\ \E g \in Groups : grp[g].st = "settled" /\ grp[g].res = None

Keys == {CACHE_KEYS[i] : i \in 1..Len(CACHE_KEYS)}
AllGroupsFailed ==
  \A g \in Groups : grp[g].st = "settled" /\ grp[g].res = None
\* the load tried the network and got nothing from it
ClientNetworkFailed ==
  IF variant = "direct" THEN AllGroupsFailed
  ELSE requests # {} /\ (response = None \/ response[1].code # 200)
\* key k holds a readable, non-empty, rebuildable envelope that is expired
\* at time t
HoldsStale(k, t) ==
  /\ localStorage[k] # None
  /\ localStorage[k][1].json
  /\ Len(localStorage[k][1].data) > 0
  /\ ~RestoreThrows(localStorage[k][1].data)
  /\ localStorage[k][1].timestamp # None
  /\ t - localStorage[k][1].timestamp[1] >= CACHE_EXPIRY

\* C3 -- Stale-cache fallback (as claimed): when every network source has
\* failed and local storage holds an expired envelope with data, the load ends
\* with that envelope's satellites published and status OFFLINE (CACHED).
C3_StaleFallback ==
  (pc = "done" /\ ClientNetworkFailed /\ \E k \in Keys : HoldsStale(k, now))
    => /\ status = STATUS_OFFLINE
       /\ \E k \in Keys : HoldsStale(k, now)
            /\ satellites = Restore(localStorage[k][1].data)

\* C4 -- Cache staleness: the step that sets ACTIVE (CACHED) publishes an
\* envelope that has a timestamp and is younger than CACHE_EXPIRY at that
\* moment, and publishes no envelope that is expired or has no timestamp; a
\* cached:true answer of the handler comes from a cache file that has a
\* timestamp and is younger than CACHE_DURATION.
C4_NeverServedStale ==
  [][ /\ (status' = STATUS_CACHED /\ status # STATUS_CACHED) =>
           /\ usedKey' # None
           /\ localStorage[usedKey'[1]][1].timestamp # None
           /\ now - localStorage[usedKey'[1]][1].timestamp[1] < CACHE_EXPIRY
           /\ satellites' = Restore(localStorage[usedKey'[1]][1].data)
           /\ \A k \in Keys :
                (/\ localStorage[k] # None
                 /\ localStorage[k][1].json
                 /\ Len(localStorage[k][1].data) > 0
                 /\ ~RestoreThrows(localStorage[k][1].data)
                 /\ \/ localStorage[k][1].timestamp = None
                    \/ now - localStorage[k][1].timestamp[1] >= CACHE_EXPIRY)
                => satellites' # Restore(localStorage[k][1].data)
      /\ (response = None /\ response' # None /\ response'[1].cached) =>
           /\ cacheFile # None
           /\ cacheFile[1].timestamp # None
           /\ now - cacheFile[1].timestamp[1] < CACHE_DURATION
           /\ response'[1].satellites = cacheFile[1].data
    ]_vars

\* C4 witness: the current key holds an envelope aged exactly CACHE_EXPIRY
\* when the load scanned it, and the load did not serve it
C4_Witness ==
  /\ pc = "done" /\ requests # {} /\ status = STATUS_ERROR
  /\ localStorage[CACHE_KEY] # None
  /\ localStorage[CACHE_KEY][1].timestamp = Boundary
  /\ now = StartTime + 1

\* C5 -- Fresh-cache short circuit: a load that finds a non-empty envelope
\* younger than CACHE_EXPIRY under the current key publishes it, sets ACTIVE
\* (CACHED) and loading = false and finishes without any request; the handler
\* that finds its file younger than CACHE_DURATION answers from it without
\* any upstream request.
C5_FreshShortCircuit ==
  /\ [](status = STATUS_CACHED => requests = {} /\ pc = "done" /\ ~loading)
  /\ []((spc = "done" /\ response # None /\ response[1].cached)
          => {r \in requests : r[1] = "server"} = {})
  /\ [][ /\ (pc = "mount" /\ pc' # "mount" /\ KeyHit(localStorage, 1, now)) =>
              /\ pc' = "done"
              /\ status' = STATUS_CACHED
              /\ loading' = FALSE
              /\ satellites' = Restore(localStorage[CACHE_KEY][1].data)
              /\ requests' = {}
         /\ (spc = "idle" /\ spc' # "idle" /\ cacheFile # None
             /\ cacheFile[1].timestamp # None
             /\ now - cacheFile[1].timestamp[1] < CACHE_DURATION) =>
              /\ spc' = "done"
              /\ response' # None
              /\ response'[1].code = 200
              /\ response'[1].cached
              /\ response'[1].satellites = cacheFile[1].data
              /\ requests' = requests
       ]_vars

\* C5 witness: the current key was served although a legacy key qualified too
C5_Witness ==
  /\ status = STATUS_CACHED /\ usedKey = Some(CACHE_KEY) /\ requests = {}
  /\ KeyHit(localStorage, 2, now)

\* the keys held nothing when the page loaded
NoCacheAtLoad ==
  \A k \in Keys :
    localStorage[k] = None
    \/ (k = CACHE_KEY /\ CACHE_KEY \in {writes[i] : i \in 1..Len(writes)})

\* C6 -- Total unavailability: a load that found no envelope and got nothing
\* from the network ends with status ERROR, an error, an empty list and no
\* envelope written; a handler whose groups all failed answers 503 with an
\* empty list and leaves its cache file alone.
C6_TotalUnavailability ==
  /\ (pc = "done" /\ NoCacheAtLoad /\ ClientNetworkFailed) =>
       /\ status = STATUS_ERROR
       /\ error # NoError
       /\ satellites = <<>>
       /\ ~loading
       /\ localStorage[CACHE_KEY] = None
       /\ writes = <<>>
  /\ (spc = "done" /\ \A g \in Groups :
                        sgrp[g].st = "settled" /\ sgrp[g].res = <<>>) =>
       /\ response # None
       /\ response[1].code = 503
       /\ response[1].satellites = <<>>
       /\ ~response[1].cached
       /\ cacheFile \in InitCacheFile
       /\ writes = <<>>

\* C6 witness: every source of every group was tried and failed, nothing cached
C6_Witness ==
  /\ variant = "direct" /\ pc = "done" /\ status = STATUS_ERROR
  /\ \A k \in Keys : localStorage[k] = None
  /\ AllGroupsFailed
  /\ requests = {<<"client", g, u>> : g \in Groups, u \in 1..2}

\* the first record with this id in a list
FirstWithId(list, id) ==
  list[CHOOSE i \in 1..Len(list) :
         list[i].id = id /\ \A j \in 1..(i - 1) : list[j].id # id]
\* the groups whose fetch produced records
Succeeded == {g \in Groups : grp[g].st = "settled" /\ grp[g].res # None}
SrvSucceeded == {g \in Groups : sgrp[g].st = "settled" /\ sgrp[g].res # <<>>}
\* the first group in GROUP_MAP order whose result carries the id
FirstListedClient(id) ==
  CHOOSE g \in Succeeded :
    /\ id \in IdsOf(grp[g].res[1])
    /\ \A h \in Succeeded : h < g => id \notin IdsOf(grp[h].res[1])
FirstListedServer(id) ==
  CHOOSE g \in SrvSucceeded :
    /\ id \in IdsOf(sgrp[g].res)
    /\ \A h \in SrvSucceeded : h < g => id \notin IdsOf(sgrp[h].res)
\* the first group in publication order whose result carries the id
FirstPublished(id) ==
  order[CHOOSE k \in 1..Len(order) :
          /\ id \in IdsOf(grp[order[k]].res[1])
          /\ \A j \in 1..(k - 1) : id \notin IdsOf(grp[order[j]].res[1])]
\* the handler's fresh 200 answer is out
ServerAnsweredFresh ==
  spc = "done" /\ response # None /\ response[1].code = 200
  /\ ~response[1].cached

\* C7 (as claimed) -- First group wins: for an id carried by two groups, the
\* entity in the final list is the record of the first of them in GROUP_MAP
\* order, in the direct loader as in the handler.
C7_FirstListedGroupWins ==
  /\ (variant = "direct" /\ pc = "done" /\ status = STATUS_ACTIVE) =>
       \A i \in 1..Len(satellites) :
         satellites[i] =
           FirstWithId(grp[FirstListedClient(satellites[i].id)].res[1],
                       satellites[i].id)
  /\ ServerAnsweredFresh =>
       \A i \in 1..Len(response[1].satellites) :
         response[1].satellites[i] =
           FirstWithId(sgrp[FirstListedServer(response[1].satellites[i].id)].res,
                       response[1].satellites[i].id)

\* C7 (amended) -- First published group wins: in the direct loader the
\* entity kept for an id is the record of the group whose result was
\* published first among the groups carrying the id; in the handler it is the
\* record of the first such group in GROUP_MAP order.
C7_FirstPublishedGroupWins ==
  /\ (variant = "direct" /\ pc \in {"fetching", "done"}
      /\ status \in {STATUS_SYNCING, STATUS_ACTIVE}) =>
       \A i \in 1..Len(satellites) :
         satellites[i] =
           FirstWithId(grp[FirstPublished(satellites[i].id)].res[1],
                       satellites[i].id)
  /\ ServerAnsweredFresh =>
       \A i \in 1..Len(response[1].satellites) :
         response[1].satellites[i] =
           FirstWithId(sgrp[FirstListedServer(response[1].satellites[i].id)].res,
                       response[1].satellites[i].id)

\* C7 witness: group 2 was published before group 1, both carry Id_A, and the
\* list keeps the record of group 2 (a PAYLOAD named ZARYA, not the STATION)
C7_Witness ==
  /\ variant = "direct" /\ pc = "done" /\ status = STATUS_ACTIVE
  /\ order = <<2, 1>>
  /\ Id_A \in IdsOf(grp[1].res[1]) /\ Id_A \in IdsOf(grp[2].res[1])
  /\ FirstWithId(satellites, Id_A).name = NameA(2)
  /\ FirstWithId(satellites, Id_A).category = "PAYLOAD"

AcceptedResults ==
  [g \in Groups |->
     {Parsed[g][t] :
        t \in {u \in Texts(g) : Len(u) > MIN_BODY /\ Len(Parsed[g][u]) > 0}}]
SrvAcceptedResults ==
  [g \in Groups |->
     {SrvParsed[g][t] : t \in {u \in Texts(g) : Len(u) > MIN_BODY}}]

\* C9 -- URL fallback: per group the primary source is requested first and
\* the secondary only after the primary attempt gave nothing; a group is
\* given up only after the secondary was tried too; a result taken from an
\* attempt is the non-empty parse of a body longer than MIN_BODY; the
\* secondary is never requested when the primary produced the result.  The
\* same holds of the handler's fetchGroupData.
C9_UrlFallback ==
  /\ requests \subseteq ({"client", "server"} \X Groups \X {1, 2})
                        \cup {<<"client", 0, 1>>}
  /\ \A g \in Groups :
       /\ grp[g].st # "idle" => <<"client", g, 1>> \in requests
       /\ <<"client", g, 2>> \in requests <=> grp[g].url = 2
       /\ (grp[g].st = "settled" /\ grp[g].res = None) => grp[g].url = 2
       /\ (grp[g].st = "settled" /\ grp[g].res # None) =>
            grp[g].res[1] \in AcceptedResults[g]
       /\ sgrp[g].st # "idle" => <<"server", g, 1>> \in requests
       /\ <<"server", g, 2>> \in requests <=> sgrp[g].url = 2
       /\ (sgrp[g].st = "settled" /\ sgrp[g].res = <<>>) => sgrp[g].url = 2
       /\ (sgrp[g].st = "settled" /\ sgrp[g].res # <<>>) =>
            sgrp[g].res \in SrvAcceptedResults[g]

\* C9 witness: one group got its list from the secondary after the primary
\* failed, another got it from the primary and its secondary was not requested
C9_Witness ==
  /\ \E g \in Groups :
       /\ grp[g].st = "settled" /\ grp[g].url = 2 /\ grp[g].res # None
       /\ {<<"client", g, 1>>, <<"client", g, 2>>} \subseteq requests
  /\ \E g \in Groups :
       /\ grp[g].st = "settled" /\ grp[g].url = 1 /\ grp[g].res # None
       /\ <<"client", g, 2>> \notin requests

\* some record of the envelope the scan chose can be rebuilt
CacheHasUsableRecord ==
  /\ usedKey # None
  /\ cachedData # None
  /\ \E i \in 1..Len(cachedData[1]) :
       {"tle1", "tle2"} \subseteq DOMAIN AsSat(cachedData[1][i])

\* C10 (as claimed) -- Failure isolation: whenever some group delivered
\* records, or the fresh envelope being restored holds a usable record, the
\* load ends with a non-empty list, no error and a non-error status.
C10_FailureIsolation ==
  (pc = "done" /\ (\/ variant = "direct" /\ Succeeded # {}
                   \/ CacheHasUsableRecord)) =>
    /\ Len(satellites) > 0
    /\ error = NoError
    /\ status # STATUS_ERROR

\* both lines of an entity pass the validator
EntityPasses(e) ==
  /\ {"tle1", "tle2"} \subseteq DOMAIN e
  /\ validateTLEChecksum(e.tle1)
  /\ validateTLEChecksum(e.tle2)

\* C11 (as claimed) -- Ingestion gate: every entity of the live list, of the
\* envelope the loader persisted and of the file the handler persisted has a
\* line 1 and a line 2 that pass validateTLEChecksum, whatever path brought
\* it in (network parse, API answer, cache restore).
C11_IngestionGate ==
  /\ \A i \in 1..Len(satellites) : EntityPasses(satellites[i])
  /\ CACHE_KEY \in {writes[i] : i \in 1..Len(writes)}
       => \A i \in 1..Len(localStorage[CACHE_KEY][1].data) :
            EntityPasses(AsSat(localStorage[CACHE_KEY][1].data[i]))
  /\ CACHE_FILE \in {writes[i] : i \in 1..Len(writes)}
       => \A i \in 1..Len(cacheFile[1].data) :
            EntityPasses(cacheFile[1].data[i])

\* how often character c stands among the first 68 characters of a line
Occurs(line, c) == Cardinality({i \in 1..68 : line[i] = c})
\* the checksum as the format defines it: digit values plus minus signs
RefSum(line) ==
  Occurs(line, "1") + 2 * Occurs(line, "2") + 3 * Occurs(line, "3")
  + 4 * Occurs(line, "4") + 5 * Occurs(line, "5") + 6 * Occurs(line, "6")
  + 7 * Occurs(line, "7") + 8 * Occurs(line, "8") + 9 * Occurs(line, "9")
  + Occurs(line, "-")
RefValid(line) ==
  /\ Len(line) >= 69
  /\ line[69] \in DigitChars
  /\ \E d \in 0..9 :
       /\ line[69] = <<"0", "1", "2", "3", "4", "5", "6", "7", "8", "9">>[d + 1]
       /\ RefSum(line) % 10 = d

\* C12 -- Checksum validator: validateTLEChecksum is false for an absent
\* line and for one shorter than 69 characters, and for any other line it is
\* true exactly when the sum of the digit values at indices 0..67, plus 1
\* per minus sign there, is congruent modulo 10 to the digit at index 68 (a
\* non-digit there gives false).
C12_ChecksumValidator ==
  fnOp = "validateTLEChecksum" =>
    /\ Len(fnArg[1]) < 69 => fnValid = FALSE
    /\ fnValid = RefValid(fnArg[1])

\* C12 witness: a line with a minus sign, a letter and a digit was accepted
C12_Witness ==
  /\ fnOp = "validateTLEChecksum"
  /\ fnValid = TRUE
  /\ fnArg[1][1] = "-" /\ fnArg[1][34] = "A" /\ fnArg[1][68] = "7"

\* C13 -- Single-digit corruption: an accepted line in which one digit at an
\* index 0..67 is replaced by another digit, the checksum digit kept, is
\* rejected.
C13_CorruptionDetected ==
  fnOp = "corrupted" =>
    /\ validateTLEChecksum(fnArg[1])
    /\ fnArg[2][LINE_LEN] = fnArg[1][LINE_LEN]
    /\ fnValid = FALSE

\* C13 witness: the last summed digit of an accepted line went from 0 to 5
C13_Witness ==
  /\ fnOp = "corrupted"
  /\ fnArg[1][68] = "0" /\ fnArg[2][68] = "5"
  /\ fnArg[1][1] = "9"
  /\ fnValid = FALSE

LegacyKeys == {CACHE_KEYS[2], CACHE_KEYS[3]}

\* C14 -- Legacy keys are read-only: no step changes what a legacy key
\* holds and the only local-storage key in the write log is the current one;
\* the scan prefers the current key, then v6, then v5; and a load that used
\* a legacy envelope leaves the current key as it found it.
C14_LegacyReadOnly ==
  /\ [](\A i \in 1..Len(writes) : writes[i] \in {CACHE_KEY, CACHE_FILE})
  /\ []((usedKey # None /\ usedKey[1] \in LegacyKeys)
          => CACHE_KEY \notin {writes[i] : i \in 1..Len(writes)})
  /\ [][ /\ \A k \in LegacyKeys : localStorage'[k] = localStorage[k]
         /\ (pc = "mount" /\ pc' # "mount") =>
              \A i \in 1..Len(CACHE_KEYS) :
                usedKey' = Some(CACHE_KEYS[i]) =>
                  /\ KeyHit(localStorage, i, now)
                  /\ \A j \in 1..(i - 1) : ~KeyHit(localStorage, j, now)
         /\ (usedKey # None /\ usedKey[1] \in LegacyKeys) =>
              localStorage'[CACHE_KEY] = localStorage[CACHE_KEY]
       ]_vars

\* C14 witness: a v6 envelope was used while the current key held an expired
\* one, which is still there, and nothing was written
C14_Witness ==
  /\ pc = "done" /\ status = STATUS_CACHED
  /\ usedKey = Some(CACHE_KEYS[2])
  /\ localStorage[CACHE_KEY] # None
  /\ localStorage[CACHE_KEY][1].timestamp = Expired
  /\ writes = <<>>

\* C15 -- Status domain: in every reachable state of either loader the
\* status is one of SYNCING..., SYSTEM: ACTIVE, SYSTEM: ACTIVE (CACHED),
\* SYSTEM: OFFLINE (CACHED), SYSTEM: ERROR.
C15_StatusDomain ==
  status \in {STATUS_SYNCING, STATUS_ACTIVE, STATUS_CACHED, STATUS_OFFLINE,
              STATUS_ERROR}

\* C15 witness: the load ended in the outer catch (a cached record could not
\* be rebuilt)
C15_Witness ==
  /\ pc = "done" /\ error = "TypeError" /\ ~loading
  /\ status \in {STATUS_SYNCING, STATUS_ERROR}

\* C16 -- Append-only progressive publish: every step of a network load
\* leaves the live list a prefix of its next value, and the entities a step
\* adds carry ids that were not in the list and differ among themselves.
C16_AppendOnly ==
  [][ /\ pc \in {"fetching", "apiwait"} =>
           /\ Len(satellites') >= Len(satellites)
           /\ SubSeq(satellites', 1, Len(satellites)) = satellites
           /\ \A i \in (Len(satellites) + 1)..Len(satellites') :
                /\ satellites'[i].id \notin IdsOf(satellites)
                /\ \A j \in (Len(satellites) + 1)..Len(satellites') :
                     (satellites'[i].id = satellites'[j].id) => (i = j)
    ]_vars

\* C16 witness: two groups were published while the load was running; the
\* second added an entity and had another one filtered out
C16_Witness ==
  /\ pc = "fetching" /\ Len(order) = 2
  /\ Len(satellites) = Len(grp[order[1]].res[1]) + 1
  /\ Len(grp[order[2]].res[1]) = 2
  /\ satellites[Len(satellites)].id \in IdsOf(grp[order[2]].res[1])
  /\ satellites[Len(satellites)].id \notin IdsOf(grp[order[1]].res[1])

\* C17 (as claimed) -- Bounded attempts and termination: whatever the network
\* does, the load eventually reaches loading = false.
C17_LoadTerminates == <>(~loading)

\* the name contains the marker somewhere
Contains(name, marker) ==
  \E i \in 1..Len(name) :
    /\ i + Len(marker) - 1 <= Len(name)
    /\ \A k \in 1..Len(marker) : name[i + k - 1] = marker[k]
HasStationMarker(name) ==
  Contains(name, Str_ISS) \/ Contains(name, Str_CSS)
  \/ Contains(name, Str_TIANGONG)
HasDebrisMarker(name) == Contains(name, Str_DEB) \/ Contains(name, Str_RB)

\* C18 (as claimed) -- Category inference: STATION when the name has a
\* station marker, otherwise DEBRIS when it has a debris marker, otherwise
\* the group label.
C18_NameThenLabel ==
  fnOp = "categoryOf" =>
    /\ fnCategory \in {"STATION", "PAYLOAD", "DEBRIS"}
    /\ fnCategory = IF HasStationMarker(fnArg[1]) THEN "STATION"
               ELSE IF HasDebrisMarker(fnArg[1]) THEN "DEBRIS"
               ELSE fnLabel

\* C18 (amended) -- Category inference: the category is STATION exactly when
\* the label is STATION or the name has a station marker; it is DEBRIS
\* exactly when it is not STATION and the label is DEBRIS or the name has a
\* debris marker; it is PAYLOAD exactly when the label is PAYLOAD and the
\* name has no marker; it is always one of the three.
C18_CategoryInference ==
  fnOp = "categoryOf" =>
    LET station == fnLabel = "STATION" \/ HasStationMarker(fnArg[1])
        debris == fnLabel = "DEBRIS" \/ HasDebrisMarker(fnArg[1])
    IN  /\ fnCategory \in {"STATION", "PAYLOAD", "DEBRIS"}
        /\ (fnCategory = "STATION") <=> station
        /\ (fnCategory = "DEBRIS") <=> (~station /\ debris)
        /\ (fnCategory = "PAYLOAD") <=>
             (fnLabel = "PAYLOAD" /\ ~HasStationMarker(fnArg[1])
              /\ ~HasDebrisMarker(fnArg[1]))

\* C18 witness: a name with a debris marker and no station marker, in a
\* group labelled STATION, is a STATION
C18_Witness ==
  /\ fnOp = "categoryOf"
  /\ fnLabel = "STATION"
  /\ HasDebrisMarker(fnArg[1]) /\ ~HasStationMarker(fnArg[1])
  /\ fnCategory = "STATION"

\* C19 -- Marker precedence: a name with both a station marker and a debris
\* marker is a STATION under every group label.
C19_StationMarkerFirst ==
  (fnOp = "categoryOf" /\ HasStationMarker(fnArg[1])
   /\ HasDebrisMarker(fnArg[1]))
    => fnCategory = "STATION"

\* C19 witness: a name that has the debris marker before the station marker,
\* in a group labelled DEBRIS
C19_Witness ==
  /\ fnOp = "categoryOf"
  /\ fnArg = <<Str_RB \o <<" ">> \o Str_TIANGONG>>
  /\ fnLabel = "DEBRIS"
  /\ fnCategory = "STATION"

\* the complete 3-line blocks of a body, in order
RefBlocks(text) ==
  LET lines == split(trim(text))
  IN  [k \in 1..(Len(lines) \div 3) |->
         <<lines[3 * k - 2], lines[3 * k - 1], lines[3 * k]>>]
\* the blocks whose two element lines are valid
RefKept(text) ==
  SelectSeq(RefBlocks(text), LAMBDA b : RefValid(b[2]) /\ RefValid(b[3]))
\* a parsed record is the block it came from
FromBlock(rec, b) ==
  /\ rec.name = trim(b[1])
  /\ rec.tle1 = trim(b[2])
  /\ rec.tle2 = trim(b[3])
  /\ rec.id = trim(SubSeq(b[3], 3, 7))

SuccessFields == {"satellites", "cached", "timestamp", "count"}
FailureFields == {"error", "satellites", "cached"}
FaultFields == {"error", "message"}

\* C21 -- API response contract: every answer of the handler has code 200,
\* 503 or 500; a 200 answer, from the cache file or freshly fetched, carries
\* satellites, cached, timestamp and count; a 503 answer carries error,
\* satellites = [] and cached = false; a 500 answer carries error and message.
C21_ResponseContract ==
  response # None =>
    /\ response[1].code \in {200, 503, 500}
    /\ response[1].code = 200 =>
         SuccessFields \subseteq DOMAIN response[1]
    /\ response[1].code = 503 =>
         /\ FailureFields \subseteq DOMAIN response[1]
         /\ response[1].satellites = <<>>
         /\ response[1].cached = FALSE
    /\ response[1].code = 500 =>
         FaultFields \subseteq DOMAIN response[1]

(***************************************************************************)
(* C22: propagateSatellite                                                 *)
(***************************************************************************)
\* C22 -- Propagation never raises: a call of propagateSatellite never
\* throws; it returns null whenever building the element record fails or the
\* library reports no position (it throws, returns null, or returns a record
\* without position); otherwise it returns the position/velocity state of its
\* arguments.
C22_PropagationNeverRaises ==
  fnOp = "propagateSatellite" =>
    /\ ~fnState.threw
    /\ fnLib # "state" => fnState.value = None
    /\ fnLib = "state" =>
         fnState.value =
           Some(PositionAndVelocity(fnArg[1], fnArg[2], fnTime))

\* a call in which the library threw, and the call returned null
C22_Witness ==
  /\ fnOp = "propagateSatellite"
  /\ fnLib = "satrec-throws"
  /\ fnState = Returned(None)

(***************************************************************************)
(* C24: getSatelliteStats                                                  *)
(***************************************************************************)
\* a numeric field that does not hold a number
Malformed(field) == parseFloat(field) = "NaN"
NotNumbers == {"NaN", "Infinity"}

\* C24 -- Stats are all-or-nothing: getSatelliteStats returns null whenever
\* the mean motion or the eccentricity field of line 2 is malformed, and a
\* result object it returns has no NaN or infinite field.
C24_StatsAllOrNothing ==
  fnOp = "getSatelliteStats" =>
    /\ ~fnStats.threw
    /\ (\/ Malformed(substring(fnArg[2], 52, 63))
        \/ Malformed(trim(substring(fnArg[2], 34, 42))))
         => fnStats.value = None
    /\ fnStats.value # None =>
         \A f \in {"velocity", "apogee", "perigee", "period"} :
           fnStats.value[1][f] \notin NotNumbers

C25_FrameConsistentClock ==
  /\ ticks <= 1
  /\ \A r \in reads : r[2] = simTime
  /\ \A r1 \in reads, r2 \in reads : r1[2] = r2[2]
  /\ lastOp \in {"pause", "speed", "reset"} => BetweenFrames

\* the second frame, after a speed button was used: the driver advanced the
\* time once and the four consumers have read it
C25_Witness ==
  /\ frames = 2
  /\ framePc = Len(FrameOrder) + 1
  /\ ticks = 1
  /\ appSpeed = 10
  /\ {r[1] : r \in reads} = {"SunLight", "Earth", "SatGroup", "Satellite"}

\* C26 -- Pause freezes simulated time: simTime changes only by the driver's
\* frame tick taken while paused is false, which adds delta * speed (delta
\* in ms), or by resetToRealTime, which sets simTime to Date.now(), speed to
\* 1 and paused to false; a frame tick while paused, the pause button and a
\* speed button leave simTime unchanged.
C26_PauseFreezesTime ==
  [][/\ simTime' # simTime =>
          \/ /\ lastOp' = "SimulationManager"
             /\ ~paused
             /\ simTime' = simTime + frameDelta * speed
          \/ /\ lastOp' = "reset"
             /\ simTime' = wall
             /\ speed' = 1
             /\ paused' = FALSE
     /\ (lastOp' = "SimulationManager" /\ ~paused) =>
          simTime' = simTime + frameDelta * speed
     /\ (lastOp' = "SimulationManager" /\ paused) => simTime' = simTime
     /\ lastOp' = "reset" =>
          (simTime' = wall /\ speed' = 1 /\ paused' = FALSE)
     /\ lastOp' \in {"pause", "speed"} => simTime' = simTime]_vars

\* the driver ran in a frame while paused, at a speed above 1, with the
\* simulated time behind the real time
C26_Witness ==
  /\ lastOp = "SimulationManager"
  /\ paused
  /\ speed = 100
  /\ frames = 2
  /\ simTime < realTime

(***************************************************************************)
(* C27: the loading-screen gate                                            *)
(***************************************************************************)
\* C27 -- Loading-screen gate: the exit of the loading screen has started
\* only if the catalog load has finished (loading = false), the counter has
\* reached 100 and reported completion, and at least 2000 ms have passed
\* since the App mounted; the screen is hidden only after its exit started,
\* and never while loading is true.
C27_LoadingScreenGate ==
  /\ (isExiting \/ hideDue >= 0) =>
       /\ ~loading
       /\ animationComplete
       /\ count = COUNT_MAX
       /\ uiNow - loadStartTime >= MIN_DISPLAY
  /\ ~showLoadingScreen => (isExiting /\ ~loading)
  /\ animationComplete => count = COUNT_MAX

\* the screen is hidden, the load having finished after the animation did
C27_Witness ==
  /\ ~showLoadingScreen
  /\ isExiting
  /\ ~loading
  /\ uiNow - loadStartTime > MIN_DISPLAY + EXIT_ANIMATION + 3 * COMPLETE_DELAY

(***************************************************************************)
(* C28: error and status of the hook                                       *)
(***************************************************************************)
\* C28 -- Error and status agree: in every reachable state of the loader,
\* in both variants, error is non-null exactly when status is SYSTEM: ERROR,
\* and loading = false implies that status is not SYNCING..., also when an
\* exception reached the outer catch of fetchAll.
C28_ErrorStatusAgree ==
  /\ (error # NoError) <=> (status = STATUS_ERROR)
  /\ ~loading => status # STATUS_SYNCING

(***************************************************************************)
(* C29: the final catalog and the order of completion                      *)
(***************************************************************************)
\* the records a group's fetch delivered (none when it failed)
ClientResults ==
  [g \in Groups |-> IF grp[g].res = None THEN <<>> ELSE grp[g].res[1]]
SrvResults == [g \in Groups |-> sgrp[g].res]
\* the results of the groups, joined in the order given
RECURSIVE Joined(_, _)
Joined(results, ord) ==
  IF ord = <<>> THEN <<>>
  ELSE results[Head(ord)] \o Joined(results, Tail(ord))
\* one entity per id, the first record of the id in the list
FirstOccurrences(list) ==
  LET keep == {i \in 1..Len(list) :
                 \A j \in 1..(i - 1) : list[j].id # list[i].id}
      nth(k) == CHOOSE i \in keep : Cardinality({j \in keep : j <= i}) = k
  IN  [k \in 1..Cardinality(keep) |-> list[nth(k)]]
\* GROUP_MAP order
ListOrder == [g \in Groups |-> g]
\* the seenIds loop of the handler over results, in GROUP_MAP order
ListOrderDedup(results) == FirstOccurrences(Joined(results, ListOrder))
\* the seenIds filter of processGroup, run as the groups complete
CompletionOrderDedup(results, ord) == FirstOccurrences(Joined(results, ord))
\* the set of the entities of a list
EntitiesOf(list) == {list[i] : i \in 1..Len(list)}
\* the direct loader has finished a network load with a catalog
ClientLoaded ==
  variant = "direct" /\ pc = "done" /\ status = STATUS_ACTIVE
\* the entities of the envelope under the current key
PersistedEntities ==
  {localStorage[CACHE_KEY][1].data[i].v :
     i \in 1..Len(localStorage[CACHE_KEY][1].data)}
\* an entity as it is persisted: every field but the propagation handle
Persisted(sat) == [f \in DOMAIN sat \ {"satrec"} |-> sat[f]]

\* C29 (as claimed) -- Order independence of the final catalog: for given
\* group contents the entities of the final client list, and of the envelope
\* it persists, are those of the dedup in GROUP_MAP order (what the handler
\* computes), whatever the order in which the group fetches completed.
C29_OrderIndependentCatalog ==
  /\ ClientLoaded =>
       EntitiesOf(satellites) = EntitiesOf(ListOrderDedup(ClientResults))
  /\ (ClientLoaded /\ writes # <<>>) =>
       PersistedEntities =
         {Persisted(s) : s \in EntitiesOf(ListOrderDedup(ClientResults))}

\* C29 (amended) -- The completion order decides: the final client list is
\* the dedup of the group results taken in the order in which the groups
\* were published, and the envelope persists exactly its entities; its set
\* of ids and its length are those of the dedup in GROUP_MAP order, and it is
\* that list when the groups were published in GROUP_MAP order; the
\* handler's answer is the dedup in GROUP_MAP order.
C29_CompletionOrderDecides ==
  /\ ClientLoaded =>
       /\ satellites = CompletionOrderDedup(ClientResults, order)
       /\ IdsOf(satellites) = IdsOf(ListOrderDedup(ClientResults))
       /\ Len(satellites) = Len(ListOrderDedup(ClientResults))
       /\ (\A k \in 1..(Len(order) - 1) : order[k] < order[k + 1]) =>
            satellites = ListOrderDedup(ClientResults)
  /\ (ClientLoaded /\ writes # <<>>) =>
       /\ PersistedEntities = {Persisted(s) : s \in EntitiesOf(satellites)}
       /\ Len(localStorage[CACHE_KEY][1].data) = Len(satellites)
  /\ ServerAnsweredFresh =>
       response[1].satellites = ListOrderDedup(SrvResults)

\* C29 witness: the same contents give another catalog than the dedup in
\* GROUP_MAP order, because group 2 was published before group 1 and both
\* carry Id_A; the envelope was written
C29_Witness ==
  /\ ClientLoaded /\ writes = <<CACHE_KEY>>
  /\ order = <<2, 1>>
  /\ Id_A \in IdsOf(ClientResults[1]) \cap IdsOf(ClientResults[2])
  /\ EntitiesOf(satellites) # EntitiesOf(ListOrderDedup(ClientResults))
  /\ FirstWithId(ListOrderDedup(ClientResults), Id_A).category = "STATION"
  /\ FirstWithId(satellites, Id_A).category = "PAYLOAD"

(***************************************************************************)
(* C30: how old the shown catalog is                                       *)
(***************************************************************************)
\* a load ends with the catalog of the envelope under the current key, shown
\* as ACTIVE (CACHED), and the time the data came from CelesTrak is known
ShowsStoredCatalog ==
  /\ pc = "mount" /\ pc' = "done"
  /\ status' = STATUS_CACHED
  /\ usedKey' = Some(CACHE_KEY)
  /\ upstream # None
\* the API loader stores the answer under the current key
StoresAnswer == pc = "apiwait" /\ writes' = Append(writes, CACHE_KEY)

\* C30 -- End-to-end freshness: when the client comes to show ACTIVE (CACHED)
\* the data it shows left the upstream source less than CACHE_EXPIRY hours
\* earlier; and the timestamp the client stores with data received from the
\* API is not later than the time the data was fetched upstream, also when
\* the handler answered from its own cache file.
C30_EndToEndFreshness ==
  [][/\ ShowsStoredCatalog => now' - upstream[1] < CACHE_EXPIRY
     /\ StoresAnswer =>
          localStorage'[CACHE_KEY][1].timestamp[1] <= upstream'[1]]_vars

============================================================================
